---- MODULE Spec2Model ----
(***************************************************************************)
(* rio-viz multi-file readers: MosaicReader (rio_viz/io/mosaic.py) and     *)
(* MultiFilesBandsReader / MultiFilesAssetsReader (rio_viz/io/reader.py).  *)
(*                                                                         *)
(* A member file is known by its position in construction order (the      *)
(* insertion order of the datasets dict).  The model follows one tile of  *)
(* NPix pixels and one point: member i answers the tile either with       *)
(* TileOutsideBounds or with NPix pixels, each masked (0) or valid (the   *)
(* value i, so that a pixel of the result names the file it came from),   *)
(* and answers the point either with PointOutsideBounds or with one value *)
(* per band, 10*i + (k-1) for band k.                                     *)
(*                                                                         *)
(* mosaic_reader, FirstMethod, multi_values, create_tasks and filter_tasks *)
(* belong to rio-tiler (>=2.0,<2.1, src/setup.py:16); they are modelled as *)
(* that library defines them, at the places where mosaic.py calls them.   *)
(*                                                                         *)
(* SpecMosaic follows the calls on a constructed mosaic, SpecReader the    *)
(* bands / assets readers, SpecBuild a MosaicReader from the files on disk *)
(* through __attrs_post_init__, its calls and its closing (by __exit__ or  *)
(* by the AsyncReader of rio_viz/compat.py), and SpecSets both kinds of     *)
(* file sets from their construction on.                                   *)
(***************************************************************************)
EXTENDS Integers, Sequences, FiniteSets, TLC

VARIABLES
    datasets,   \* MosaicReader.datasets: the member readers, in construction order
    out,        \* outcome of the last MosaicReader call
    pattern,    \* MultiFiles*Reader.input: the brace pattern
    mode,       \* "bands" (MultiFilesBandsReader) or "assets" (MultiFilesAssetsReader)
    phase,      \* "new", "ready" (constructed) or "failed" (constructor raised)
    files,      \* MultiFiles*Reader.files
    names,      \* MultiFiles*Reader.bands / .assets
    first,      \* what opening files[0] gives (the first file as it is on disk)
    later,      \* what opening any file after files[0] gives
    geo,        \* MultiFiles*Reader.bounds, .minzoom, .maxzoom
    rout,       \* outcome of the last _get_band_url / _get_asset_url call
    disk,       \* the files a MosaicReader's filepath expands to, as they are on disk
    mo,         \* the MosaicReader object under construction, in use, or closed
    calls,      \* tile() / point() calls running on one MosaicReader, by thread
    app,        \* the viz application (app.py): reader_type, layers, has_mvt
    resp,       \* the response to the last request the viz application handled
    readers,    \* the readers opened by route handlers and not closed yet
    raster,     \* the RasterTiles object (raster.py) behind the tornado server
    reply,      \* the answer of the last tornado handler
    log,        \* the calls made on raster, in order
    cli,        \* the rio viz command (scripts/cli.py): its arguments and position
    fsys,       \* the temporary raster files that exist
    events,     \* what the command did, in order
    live,       \* ServerManager's registry of servers, by "host:port" key
    servers     \* the ServerThread objects created so far

vars == <<datasets, out, pattern, mode, first, later, phase, files, names, geo, rout,
          disk, mo, calls, app, resp, readers, raster, reply, log, cli, fsys, events,
          live, servers>>
mosaicVars == <<datasets, out>>
readerVars == <<pattern, mode, first, later, phase, files, names, geo, rout>>
buildVars == <<disk, mo>>
setsVars == <<mosaicVars, readerVars, buildVars>>
flightVars == <<calls>>
vizVars == <<app, resp, readers>>
tornadoVars == <<raster, reply, log>>
cliVars == <<cli, fsys, events>>
clientVars == <<live, servers>>
serviceVars == <<vizVars, tornadoVars, cliVars, clientVars>>

\* ---------------------------------------------------------------- bounds
MaxFiles == 3
NPix == 2
MaxBands == 2
MaxKw == 1
MaxAlts == 11
MaxReq == 2
MaxParams == 3
MaxZoom == 1
MaxClients == 4

\* ------------------------------------------------------------ small helpers
Reverse(s) == [i \in 1..Len(s) |-> s[Len(s) + 1 - i]]

Masked == 0

NoPix == [p \in 1..NPix |-> Masked]

Returned(v) == [kind |-> "return", err |-> "", value |-> v]

Raised(e) == [kind |-> "raise", err |-> e, value |-> <<>>]

\* ------------------------------------------- components that are not running
\* No call is running on a mosaic.
NoFlight == calls = <<>>

\* A viz application, or a tornado server, has been constructed.
VizServes == DOMAIN resp # {}

TornadoServes == DOMAIN reply # {}

\* No viz application, tornado server, command or notebook client exists.
NoService ==
    /\ app = <<>> /\ resp = <<>> /\ readers = {}
    /\ raster = <<>> /\ reply = <<>> /\ log = <<>>
    /\ cli = <<>> /\ fsys = {} /\ events = <<>>
    /\ live = <<>> /\ servers = <<>>

\* ------------------------------------------------------- the member files
\* A member whose bounds do not hold the tile, or the point.
TileOutside == [covers |-> FALSE, pix |-> NoPix]

PointOutside == [covers |-> FALSE, values |-> <<>>]

\* What member i (a COGReader) answers for the tile.
TileResponses(i) ==
    {TileOutside}
        \cup {[covers |-> TRUE, pix |-> m] : m \in [1..NPix -> {Masked, i}]}

\* What member i answers for the point, for a file of nb bands.
PointResponses(i, nb) ==
    {PointOutside,
     [covers |-> TRUE, values |-> [k \in 1..nb |-> 10 * i + (k - 1)]]}

\* tile() reads only the members' answers for the tile and point() only their
\* answers for the point, so the members vary in one of the two at a time.
Members(i, nb, target) ==
    IF target = "tile"
    THEN {[tile |-> t, point |-> PointOutside] : t \in TileResponses(i)}
    ELSE {[tile |-> TileOutside, point |-> p] : p \in PointResponses(i, nb)}

RECURSIVE MemberSeqs(_, _, _)
MemberSeqs(n, nb, target) ==
    IF n = 0 THEN {<<>>}
    ELSE {Append(s, m) : s \in MemberSeqs(n - 1, nb, target),
                         m \in Members(n, nb, target)}

\* ------------------------------------------------ MosaicReader.tile / point
\* Mutant of MosaicAssets: reverse is ignored.
MosaicAssetsForward(ds, reverse) == [i \in 1..Len(ds) |-> i]

\* mosaic.py:81-85 and 100-104: the keys of datasets, reversed when asked.
MosaicAssets(ds, reverse) ==
    IF reverse THEN Reverse([i \in 1..Len(ds) |-> i]) ELSE [i \in 1..Len(ds) |-> i]

\* Mutant of TileReader: the tile is read from the first member, whatever the
\* asset asked.
TileReaderFirstMember(ds, asset) ==
    IF ds[1].tile.covers THEN Returned(ds[1].tile.pix) ELSE Raised("TileOutsideBounds")

\* mosaic.py:87-90: _reader of tile(), one member's tile call.
TileReader(ds, asset) ==
    IF ds[asset].tile.covers
    THEN Returned(ds[asset].tile.pix)
    ELSE Raised("TileOutsideBounds")

\* mosaic.py:106-107: _reader of point(), one member's point call.
PointReader(ds, asset) ==
    IF ds[asset].point.covers
    THEN Returned(ds[asset].point.values)
    ELSE Raised("PointOutsideBounds")

\* rio_tiler FirstMethod.feed: the first tile fed is kept; a later tile only
\* fills the pixels that are still masked.
FirstMethodFeed(cur, tile) ==
    IF ~cur.fed
    THEN [fed |-> TRUE, pix |-> tile]
    ELSE [fed |-> TRUE,
          pix |-> [p \in 1..NPix |->
                      IF cur.pix[p] = Masked /\ tile[p] # Masked
                      THEN tile[p] ELSE cur.pix[p]]]

\* rio_tiler FirstMethod.is_done (exit_when_filled): no masked pixel is left.
FirstMethodIsDone(cur) ==
    cur.fed /\ \A p \in 1..NPix : cur.pix[p] # Masked

\* rio_tiler mosaic_reader's default allowed_exceptions.
MosaicAllowed == {"TileOutsideBounds"}

\* rio_tiler mosaic_reader with threads=0: the assets are read one after the
\* other, in order; an allowed exception skips the asset; the loop ends as
\* soon as the pixel selection is done; nothing fed is EmptyMosaicError.
RECURSIVE MosaicLoop(_, _, _, _, _)
MosaicLoop(assets, ds, allowed, k, cur) ==
    IF k > Len(assets)
    THEN IF cur.fed THEN Returned(cur.pix)
         ELSE Raised("EmptyMosaicError")
    ELSE LET r == TileReader(ds, assets[k]) IN
         IF r.kind = "raise"
         THEN IF r.err \in allowed
              THEN MosaicLoop(assets, ds, allowed, k + 1, cur)
              ELSE r
         ELSE LET nxt == FirstMethodFeed(cur, r.value) IN
              IF FirstMethodIsDone(nxt) THEN Returned(nxt.pix)
              ELSE MosaicLoop(assets, ds, allowed, k + 1, nxt)

mosaic_reader(assets, ds) ==
    MosaicLoop(assets, ds, MosaicAllowed, 1, [fed |-> FALSE, pix |-> NoPix])

\* Mutant of tile: only the first asset of the order is read, without
\* mosaic_reader.
tileFirstAsset(ds, reverse) == TileReader(ds, MosaicAssets(ds, reverse)[1])

\* mosaic.py:72-94: MosaicReader.tile.
tile(ds, reverse) == mosaic_reader(MosaicAssets(ds, reverse), ds)

\* The caller's allowed_exceptions option of point(): absent, or a tuple.
AllowedOptions ==
    {[given |-> FALSE, excs |-> {}],
     [given |-> TRUE, excs |-> {}],
     [given |-> TRUE, excs |-> {"PointOutsideBounds"}]}

\* Mutant of PointKwargs: no default is set.
PointKwargsAsGiven(kw) == kw

\* mosaic.py:109-110: the default is set only when the option is absent.
PointKwargs(kw) ==
    IF ~kw.given THEN [given |-> TRUE, excs |-> {"PointOutsideBounds"}] ELSE kw

\* rio_tiler multi_values with threads=0: every asset is read, in order; an
\* allowed exception drops the asset; the answers come back in asset order.
RECURSIVE MultiValuesLoop(_, _, _, _, _)
MultiValuesLoop(assets, ds, allowed, k, acc) ==
    IF k > Len(assets) THEN Returned(acc)
    ELSE LET r == PointReader(ds, assets[k]) IN
         IF r.kind = "raise"
         THEN IF r.err \in allowed
              THEN MultiValuesLoop(assets, ds, allowed, k + 1, acc)
              ELSE r
         ELSE MultiValuesLoop(assets, ds, allowed, k + 1, Append(acc, r.value))

multi_values(assets, ds, kw) ==
    MultiValuesLoop(assets, ds, IF kw.given THEN kw.excs ELSE {}, 1, <<>>)

\* Python zip(*lists): as long as the shortest list, empty for no list.
MinLen(lists) ==
    IF Len(lists) = 0 THEN 0
    ELSE CHOOSE m \in {Len(lists[j]) : j \in 1..Len(lists)} :
             \A j \in 1..Len(lists) : m <= Len(lists[j])

Zip(lists) ==
    [k \in 1..MinLen(lists) |-> [j \in 1..Len(lists) |-> lists[j][k]]]

\* Mutant of point: one value per file (the first band of each), not per band.
pointPerFile(ds, reverse, kw) ==
    LET mv == multi_values(MosaicAssets(ds, reverse), ds, PointKwargs(kw)) IN
    IF mv.kind = "raise" THEN mv
    ELSE LET z == Zip(mv.value) IN Returned(IF Len(z) = 0 THEN <<>> ELSE z[1])

\* Mutant of point: the value of the last file, list(r)[-1], is kept.
pointLastFile(ds, reverse, kw) ==
    LET mv == multi_values(MosaicAssets(ds, reverse), ds, PointKwargs(kw)) IN
    IF mv.kind = "raise" THEN mv
    ELSE LET z == Zip(mv.value) IN Returned([k \in 1..Len(z) |-> z[k][Len(z[k])]])

\* mosaic.py:96-120: MosaicReader.point.
point(ds, reverse, kw) ==
    LET mv == multi_values(MosaicAssets(ds, reverse), ds, PointKwargs(kw)) IN
    IF mv.kind = "raise" THEN mv
    ELSE LET z == Zip(mv.value) IN Returned([k \in 1..Len(z) |-> z[k][1]])

\* mosaic.py:156-166: preview(self), part(self), feature(self) take no
\* argument: Python rejects a call with any argument before the body runs.
Unsupported(npos, nkw) ==
    IF npos + nkw > 0 THEN Raised("TypeError") ELSE Raised("NotImplementedError")

\* ------------------------------------------------------------ MosaicReader
NoGeo == [bounds |-> <<>>, minzoom |-> 0, maxzoom |-> 0]

NoUrl == [op |-> "none", name |-> <<>>, kind |-> "", err |-> "", value |-> <<>>]

NoFirst == [opens |-> FALSE, bounds |-> <<>>, minzoom |-> 0, maxzoom |-> 0]

NoPattern == [pre |-> <<>>, alts |-> <<>>, post |-> <<>>]

NoColormap == [set |-> FALSE, map |-> 0]

NoMosaic ==
    [phase |-> "", err |-> "", members |-> <<>>, bounds |-> <<>>, minzoom |-> 0,
     maxzoom |-> 0, colormap |-> NoColormap, wrapper |-> ""]

NoCall ==
    [op |-> "none", reverse |-> FALSE, allowed |-> [given |-> FALSE, excs |-> {}],
     npos |-> 0, nkw |-> 0, kind |-> "", err |-> "", value |-> <<>>]

Call(op, reverse, kw, npos, nkw, res) ==
    [op |-> op, reverse |-> reverse, allowed |-> kw, npos |-> npos, nkw |-> nkw,
     kind |-> res.kind, err |-> res.err, value |-> res.value]

InitMosaic ==
    /\ \E n \in 1..MaxFiles, nb \in 1..MaxBands, target \in {"tile", "point"} :
          datasets \in MemberSeqs(n, nb, target)
    /\ out = NoCall
    /\ pattern = NoPattern /\ mode = "" /\ first = NoFirst /\ later = NoFirst
    /\ phase = "" /\ files = <<>> /\ names = <<>> /\ geo = NoGeo /\ rout = NoUrl
    /\ disk = <<>> /\ mo = NoMosaic
    /\ NoFlight /\ NoService

Tile ==
    /\ \E reverse \in BOOLEAN :
          out' = Call("tile", reverse, NoCall.allowed, 0, 0, tile(datasets, reverse))
    /\ UNCHANGED <<datasets, readerVars, buildVars, flightVars, serviceVars>>

Point ==
    /\ \E reverse \in BOOLEAN, kw \in AllowedOptions :
          out' = Call("point", reverse, kw, 0, 0, point(datasets, reverse, kw))
    /\ UNCHANGED <<datasets, readerVars, buildVars, flightVars, serviceVars>>

Preview ==
    /\ \E nkw \in 0..MaxKw :
          out' = Call("preview", FALSE, NoCall.allowed, 0, nkw, Unsupported(0, nkw))
    /\ UNCHANGED <<datasets, readerVars, buildVars, flightVars, serviceVars>>

Part ==
    /\ \E npos \in 0..1, nkw \in 0..MaxKw :
          out' = Call("part", FALSE, NoCall.allowed, npos, nkw, Unsupported(npos, nkw))
    /\ UNCHANGED <<datasets, readerVars, buildVars, flightVars, serviceVars>>

Feature ==
    /\ \E npos \in 0..1, nkw \in 0..MaxKw :
          out' = Call("feature", FALSE, NoCall.allowed, npos, nkw, Unsupported(npos, nkw))
    /\ UNCHANGED <<datasets, readerVars, buildVars, flightVars, serviceVars>>

NextMosaic == Tile \/ Point \/ Preview \/ Part \/ Feature

SpecMosaic == InitMosaic /\ [][NextMosaic]_vars

\* ------------------------------------- MultiFilesBandsReader / AssetsReader
\* A string is a sequence of characters.
Digit == <<"0", "1", "2", "3", "4", "5", "6", "7", "8", "9">>

\* Python str(int) for n >= 0, as the f-string formats it.
RECURSIVE Str(_)
Str(n) ==
    IF n < 10 THEN <<Digit[n + 1]>>
    ELSE Str(n \div 10) \o <<Digit[(n % 10) + 1]>>

\* braceexpand on a pattern pre{a1,...,an}post: one locator per alternative,
\* in order; braces holding a single alternative are literal text; no braces,
\* the pattern itself.
braceexpand(pat) ==
    IF Len(pat.alts) = 0 THEN <<pat.pre \o pat.post>>
    ELSE IF Len(pat.alts) = 1
         THEN <<pat.pre \o <<"{">> \o pat.alts[1] \o <<"}">> \o pat.post>>
         ELSE [i \in 1..Len(pat.alts) |-> pat.pre \o pat.alts[i] \o pat.post]

\* reader.py:28 and reader.py:60: the prefix of the logical names.
Prefix(m) == IF m = "bands" THEN <<"b">> ELSE <<"a", "s", "s", "e", "t">>

\* Mutant of LogicalNames: names numbered from 0, f"b{ix}".
LogicalNamesFromZero(m, fs) == [i \in 1..Len(fs) |-> Prefix(m) \o Str(i - 1)]

\* reader.py:28 and reader.py:60: f"b{ix + 1}" for ix in range(len(files)).
LogicalNames(m, fs) == [i \in 1..Len(fs) |-> Prefix(m) \o Str((i - 1) + 1)]

\* Python list.index: the first position holding x.
ListIndex(l, x) ==
    CHOOSE i \in 1..Len(l) : l[i] = x /\ \A j \in 1..(i - 1) : l[j] # x

\* Mutant of get_url: the file after the one at the name's index.
get_url_next_file(ns, fs, name) ==
    IF \A i \in 1..Len(ns) : ns[i] # name
    THEN Raised("InvalidBandName")
    ELSE Returned(fs[(ListIndex(ns, name) % Len(fs)) + 1])

\* reader.py:36-42 and reader.py:68-74: _get_band_url / _get_asset_url.
get_url(ns, fs, name) ==
    IF \A i \in 1..Len(ns) : ns[i] # name
    THEN Raised("InvalidBandName")
    ELSE Returned(fs[ListIndex(ns, name)])

\* The alternatives of a pattern of n of them: 1,2,...,n when distinct, and
\* 1,2,1,2,... (the same file named more than once) otherwise.
Alternatives(n, distinct) ==
    [i \in 1..n |-> IF distinct THEN Str(i) ELSE Str(2 - (i % 2))]

Patterns ==
    {[pre |-> <<"c", "o", "g">>, alts |-> Alternatives(n, d),
      post |-> <<".", "t", "i", "f">>] : n \in 0..MaxAlts, d \in BOOLEAN}

\* What opening the first file gives: an error, or the file's geometry.
FirstFiles ==
    {NoFirst,
     [opens |-> TRUE, bounds |-> <<0, 0, 4, 4>>, minzoom |-> 0, maxzoom |-> 5],
     [opens |-> TRUE, bounds |-> <<2, 1, 6, 3>>, minzoom |-> 3, maxzoom |-> 7]}

\* Strings asked of _get_band_url / _get_asset_url: the names of both modes
\* around the valid range, near misses, and a file locator.
NameCandidates ==
    {Prefix(m) \o Str(k) : m \in {"bands", "assets"}, k \in 0..(MaxAlts + 1)}
        \cup {<<>>, <<"b">>, <<"1">>, <<"B", "1">>, <<"b", "0", "1">>,
              <<"b", "1", " ">>}
        \cup {braceexpand(pat)[1] : pat \in Patterns}

InitReader ==
    /\ pattern \in Patterns
    /\ mode \in {"bands", "assets"}
    /\ first \in FirstFiles
    /\ later \in FirstFiles
    /\ phase = "new"
    /\ files = <<>> /\ names = <<>> /\ geo = NoGeo
    /\ rout = NoUrl
    /\ datasets = <<>> /\ out = NoCall
    /\ disk = <<>> /\ mo = NoMosaic
    /\ NoFlight /\ NoService

\* reader.py:25-34 and reader.py:57-66: __attrs_post_init__.
Construct ==
    /\ phase = "new"
    /\ files' = braceexpand(pattern)
    /\ names' = LogicalNames(mode, files')
    /\ IF first.opens
       THEN /\ geo' = [bounds |-> first.bounds, minzoom |-> first.minzoom,
                       maxzoom |-> first.maxzoom]
            /\ phase' = "ready"
       ELSE /\ geo' = geo
            /\ phase' = "failed"
    /\ UNCHANGED <<pattern, mode, first, later, rout, mosaicVars, buildVars,
                   flightVars, serviceVars>>

GetUrl ==
    /\ phase = "ready"
    /\ \E name \in NameCandidates :
          rout' = [op |-> "get_url", name |-> name] @@ get_url(names, files, name)
    /\ UNCHANGED <<pattern, mode, first, later, phase, files, names, geo, mosaicVars,
                   buildVars, flightVars, serviceVars>>

NextReader == Construct \/ GetUrl

SpecReader == InitReader /\ [][NextReader]_vars

\* ------------------------------------------------- MosaicReader construction
\* The place the model follows for tile() and point().
Here == <<0, 0>>

\* What a file of the mosaic can be at position i of the expansion: a file
\* that does not open, or one with its dtypes (one per band), its colormap (0
\* for none, i for the colormap of file i), its bounds and its zoom range.
MosaicFiles(i) ==
    LET base == [opens |-> TRUE, dtypes |-> <<"uint8">>, cmap |-> 0,
                 bounds |-> <<0, 0, 4, 4>>, minzoom |-> 0, maxzoom |-> 5]
        east == [base EXCEPT !.bounds = <<2, 1, 6, 3>>, !.minzoom = 3, !.maxzoom = 7]
        west == [base EXCEPT !.bounds = <<0 - 3, 0 - 2, 1, 5>>, !.minzoom = 1,
                             !.maxzoom = 4]
    IN  {base, east, west,
         [base EXCEPT !.opens = FALSE],
         [base EXCEPT !.dtypes = <<"uint16">>],
         [base EXCEPT !.dtypes = <<"uint8", "uint8">>],
         [base EXCEPT !.dtypes = <<"uint8", "uint16">>],
         [base EXCEPT !.cmap = i],
         [east EXCEPT !.cmap = i]}

RECURSIVE Disks(_)
Disks(n) ==
    IF n = 0 THEN {<<>>}
    ELSE {Append(s, f) : s \in Disks(n - 1), f \in MosaicFiles(n)}

Range(s) == {s[i] : i \in 1..Len(s)}

\* Python min() and max() of a non-empty list.
Min(s) == CHOOSE x \in Range(s) : \A y \in Range(s) : x <= y

Max(s) == CHOOSE x \in Range(s) : \A y \in Range(s) : x >= y

\* Mutant of OpenAll: only the first file is opened at construction.
OpenFirstOnly(fs) ==
    [ok |-> fs[1].opens,
     handles |-> IF fs[1].opens THEN [i \in 1..Len(fs) |-> [file |-> i, open |-> TRUE]]
                 ELSE <<>>]

\* mosaic.py:35-38: COGReader(src_path) for every path, in order: the open
\* handles, or the failure of the first file that does not open with the
\* handles opened before it.
OpenAll(fs) ==
    LET bad == {i \in 1..Len(fs) : ~fs[i].opens}
        n == IF bad = {} THEN Len(fs)
             ELSE (CHOOSE i \in bad : \A j \in bad : i <= j) - 1
    IN  [ok |-> bad = {}, handles |-> [i \in 1..n |-> [file |-> i, open |-> TRUE]]]

\* COGReader.tile / COGReader.point of file i of fs, at Here.
Holds(b, xy) == b[1] <= xy[1] /\ xy[1] <= b[3] /\ b[2] <= xy[2] /\ xy[2] <= b[4]

Answers(fs) ==
    [i \in 1..Len(fs) |->
        IF Holds(fs[i].bounds, Here)
        THEN [tile |-> [covers |-> TRUE, pix |-> [p \in 1..NPix |-> i]],
              point |-> [covers |-> TRUE,
                         values |-> [k \in 1..Len(fs[i].dtypes) |-> 10 * i + (k - 1)]]]
        ELSE [tile |-> TileOutside, point |-> PointOutside]]

\* Mutant of Zooms: the zoom range of the first file.
ZoomsFirstFile(fs) == [minzoom |-> fs[1].minzoom, maxzoom |-> fs[1].maxzoom]

\* mosaic.py:41-42.
Zooms(fs) ==
    [minzoom |-> Min([i \in 1..Len(fs) |-> fs[i].minzoom]),
     maxzoom |-> Max([i \in 1..Len(fs) |-> fs[i].maxzoom])]

\* Mutant of Dtypes: the dtype of the first file alone.
DtypesFirstFile(fs) == {fs[1].dtypes[1]}

\* mosaic.py:45: the dtype of the first band of every member.
Dtypes(fs) == {fs[i].dtypes[1] : i \in 1..Len(fs)}

\* mosaic.py:50.
Nbands(fs) == {Len(fs[i].dtypes) : i \in 1..Len(fs)}

\* mosaic.py:54: the non-empty colormaps, in file order.
Cmaps(fs) ==
    LET with == SelectSeq(fs, LAMBDA f : f.cmap # 0)
    IN  [i \in 1..Len(with) |-> with[i].cmap]

\* Mutant of Colormap: the last colormap is taken.
ColormapLast(fs) ==
    IF Len(Cmaps(fs)) > 0 THEN [set |-> TRUE, map |-> Cmaps(fs)[Len(Cmaps(fs))]]
    ELSE NoColormap

\* mosaic.py:55-57: the attribute is set only when a member has a colormap.
Colormap(fs) ==
    IF Len(Cmaps(fs)) > 0 THEN [set |-> TRUE, map |-> Cmaps(fs)[1]]
    ELSE NoColormap

\* Mutant of Xs: only the left edges are collected.
XsLeftOnly(fs) == [i \in 1..Len(fs) |-> fs[i].bounds[1]]

\* mosaic.py:59-64: xs.extend([left, right]) for every member, in file order.
Xs(fs) ==
    [k \in 1..(2 * Len(fs)) |->
        IF k % 2 = 1 THEN fs[(k + 1) \div 2].bounds[1] ELSE fs[k \div 2].bounds[3]]

\* mosaic.py:59-64: ys.extend([bottom, top]) for every member, in file order.
Ys(fs) ==
    [k \in 1..(2 * Len(fs)) |->
        IF k % 2 = 1 THEN fs[(k + 1) \div 2].bounds[2] ELSE fs[k \div 2].bounds[4]]

\* mosaic.py:65.
Bounds(fs) == <<Min(Xs(fs)), Min(Ys(fs)), Max(Xs(fs)), Max(Ys(fs))>>

\* mosaic.py:33-65: __attrs_post_init__ on the files fs, the object it leaves.
\* A raise leaves the attributes assigned before it and hands no object out.
attrs_post_init(fs) ==
    LET opened == OpenAll(fs)
        failed(e, hs, z) ==
            [NoMosaic EXCEPT !.phase = "failed", !.err = e, !.members = hs,
                             !.minzoom = z.minzoom, !.maxzoom = z.maxzoom]
    IN  IF ~opened.ok
        THEN failed("RasterioIOError", <<>>, [minzoom |-> 0, maxzoom |-> 0])
        ELSE IF Cardinality(Dtypes(fs)) > 1
        THEN failed("Datasets must be of the same data type.", opened.handles,
                    Zooms(fs))
        ELSE IF Cardinality(Nbands(fs)) > 1
        THEN failed("Datasets must be have the same number of bands.",
                    opened.handles, Zooms(fs))
        ELSE [NoMosaic EXCEPT !.phase = "ready", !.members = opened.handles,
                              !.minzoom = Zooms(fs).minzoom,
                              !.maxzoom = Zooms(fs).maxzoom,
                              !.colormap = Colormap(fs), !.bounds = Bounds(fs)]

InitBuild ==
    /\ \E n \in 1..MaxFiles : disk \in Disks(n)
    /\ mo = [NoMosaic EXCEPT !.phase = "new"]
    /\ datasets = <<>> /\ out = NoCall
    /\ pattern = NoPattern /\ mode = "" /\ first = NoFirst /\ later = NoFirst
    /\ phase = "" /\ files = <<>> /\ names = <<>> /\ geo = NoGeo /\ rout = NoUrl
    /\ NoFlight /\ NoService

\* MosaicReader(filepath): the files are opened and the attributes computed.
Build ==
    /\ mo.phase = "new"
    /\ mo' = attrs_post_init(disk)
    /\ datasets' = IF mo'.phase = "ready" THEN Answers(disk) ELSE datasets
    /\ UNCHANGED <<out, disk, readerVars, flightVars, serviceVars>>

\* app.py:563: getattr(src_dst, "colormap", None), 0 standing for None.
dst_colormap(m) == IF m.colormap.set THEN m.colormap.map ELSE 0

\* Whether the reader wrapped by AsyncReader has a crs attribute (compat.py:41
\* reads it): mosaic.py never sets one, so it is there only if the installed
\* rio-tiler release gives one to every BaseReader.  Both outcomes are kept.
CrsAttribute == BOOLEAN

\* compat.py:37-52: AsyncReader.__attrs_post_init__ around a MosaicReader; m is
\* the object self.reader(self.input) left.
async_post_init(m, crs) ==
    IF m.phase # "ready" THEN m
    ELSE IF ~crs THEN [m EXCEPT !.phase = "failed", !.err = "AttributeError",
                                !.wrapper = "failed"]
    ELSE [m EXCEPT !.wrapper = "open"]

\* AsyncReader(input, reader=MosaicReader), as scripts/cli.py:173-176 builds it.
AsyncBuild ==
    /\ mo.phase = "new"
    /\ \E crs \in CrsAttribute : mo' = async_post_init(attrs_post_init(disk), crs)
    /\ datasets' = IF mo'.phase = "ready" THEN Answers(disk) ELSE datasets
    /\ UNCHANGED <<out, disk, readerVars, flightVars, serviceVars>>

\* Mutant of SelfAfterCall: a reversed call reorders the members in place.
SelfReordered(m, reverse) ==
    IF reverse THEN [m EXCEPT !.members = Reverse(@)] ELSE m

\* mosaic.py:72-166: tile() and point() reverse a copy of the keys, and no
\* method assigns to self: the object after a call is the object before it.
SelfAfterCall(m, reverse) == m

MosaicTile ==
    /\ mo.phase = "ready"
    /\ \E reverse \in BOOLEAN :
          /\ out' = Call("tile", reverse, NoCall.allowed, 0, 0, tile(datasets, reverse))
          /\ mo' = SelfAfterCall(mo, reverse)
    /\ UNCHANGED <<datasets, disk, readerVars, flightVars, serviceVars>>

MosaicPoint ==
    /\ mo.phase = "ready"
    /\ \E reverse \in BOOLEAN, kw \in AllowedOptions :
          /\ out' = Call("point", reverse, kw, 0, 0, point(datasets, reverse, kw))
          /\ mo' = SelfAfterCall(mo, reverse)
    /\ UNCHANGED <<datasets, disk, readerVars, flightVars, serviceVars>>

\* COGReader.info() of file i without the excluded spatial fields
\* (mosaic.py:127-140).
FileInfo(fs, i) ==
    [file |-> i, dtype |-> fs[i].dtypes[1], count |-> Len(fs[i].dtypes),
     colormap |-> fs[i].cmap]

\* Mutant of info: the metadata of the last file.
infoLastFile(fs, m) ==
    Returned([meta |-> FileInfo(fs, Len(m.members)), bounds |-> m.bounds,
              minzoom |-> m.minzoom, maxzoom |-> m.maxzoom])

\* mosaic.py:122-143: MosaicReader.info: the first dataset's metadata with the
\* set's own spatial_info (bounds, minzoom, maxzoom).
info(fs, m) ==
    Returned([meta |-> FileInfo(fs, m.members[1].file), bounds |-> m.bounds,
              minzoom |-> m.minzoom, maxzoom |-> m.maxzoom])

\* mosaic.py:145-151: MosaicReader.stats: the statistics of the first file.
stats(fs, m) == Returned([file |-> m.members[1].file])

MosaicInfo ==
    /\ mo.phase = "ready"
    /\ out' = Call("info", FALSE, NoCall.allowed, 0, 0, info(disk, mo))
    /\ mo' = SelfAfterCall(mo, FALSE)
    /\ UNCHANGED <<datasets, disk, readerVars, flightVars, serviceVars>>

MosaicStats ==
    /\ mo.phase = "ready"
    /\ out' = Call("stats", FALSE, NoCall.allowed, 0, 0, stats(disk, mo))
    /\ mo' = SelfAfterCall(mo, FALSE)
    /\ UNCHANGED <<datasets, disk, readerVars, flightVars, serviceVars>>

\* preview(), part() and feature() on the constructed set.
MosaicUnsupported ==
    /\ mo.phase = "ready"
    /\ \E op \in {"preview", "part", "feature"}, npos \in 0..1, nkw \in 0..MaxKw :
          out' = Call(op, FALSE, NoCall.allowed, npos, nkw, Unsupported(npos, nkw))
    /\ mo' = SelfAfterCall(mo, FALSE)
    /\ UNCHANGED <<datasets, disk, readerVars, flightVars, serviceVars>>

\* mosaic.py:67-70: __exit__ closes every dataset.
CloseAll(hs) == [i \in 1..Len(hs) |-> [hs[i] EXCEPT !.open = FALSE]]

Exit ==
    /\ mo.phase = "ready"
    /\ mo' = [mo EXCEPT !.phase = "closed", !.members = CloseAll(@)]
    /\ UNCHANGED <<datasets, out, disk, readerVars, flightVars, serviceVars>>

\* getattr(self.dataset, "close", None) on a MosaicReader (compat.py:56):
\* mosaic.py defines __exit__ and no close, and BaseReader has none.
MosaicHasClose == FALSE

\* compat.py:54-57: AsyncReader.close.
async_close(m) ==
    [m EXCEPT !.wrapper = "closed",
              !.members = IF MosaicHasClose THEN CloseAll(@) ELSE @]

\* compat.py:54-61: close(), called directly or by __aexit__.
AsyncClose ==
    /\ mo.phase = "ready" /\ mo.wrapper = "open"
    /\ mo' = async_close(mo)
    /\ UNCHANGED <<datasets, out, disk, readerVars, flightVars, serviceVars>>

NextBuild ==
    \/ Build \/ AsyncBuild
    \/ MosaicTile \/ MosaicPoint \/ MosaicInfo \/ MosaicStats \/ MosaicUnsupported
    \/ Exit \/ AsyncClose

SpecBuild == InitBuild /\ [][NextBuild]_vars

\* ------------------------------------------------- both kinds of file sets
InitSets == InitBuild \/ InitReader

NextSets == NextBuild \/ NextReader

SpecSets == InitSets /\ [][NextSets]_vars

\* ------------------------------------ concurrent calls on one MosaicReader
\* The idle values of the file-set variables, for the components below.
NoReader ==
    /\ pattern = NoPattern /\ mode = "" /\ first = NoFirst /\ later = NoFirst
    /\ phase = "" /\ files = <<>> /\ names = <<>> /\ geo = NoGeo /\ rout = NoUrl

NoBuild == disk = <<>> /\ mo = NoMosaic

NoSets == datasets = <<>> /\ out = NoCall /\ NoReader /\ NoBuild

\* The threads of the pool on which compat.py:74-86 runs tile() and point()
\* (run_in_threadpool): two callers of the same object.
Threads == {"t1", "t2"}

\* A thread that runs no call, and the locals of a call at its start:
\* mosaic_reader builds its pixel selection, and multi_values its list of
\* answers, anew in every call.
IdleCall ==
    [pc |-> "idle", op |-> "", reverse |-> FALSE, allowed |-> NoCall.allowed,
     k |-> 0, res |-> Raised("")]

FreshLocals == [cur |-> [fed |-> FALSE, pix |-> NoPix], acc |-> <<>>]

\* Mutant of Locals: the accumulators of every call are those of thread t1,
\* as if they were attributes of the MosaicReader.
LocalsOnSelf(t) == "t1"

\* mosaic.py:72-120: the accumulators of a call are locals of that call; self
\* is only read.
Locals(t) == t

\* mosaic.py:112-120: list(r)[0] for r in zip(*answers).
FirstOfEach(answers) ==
    LET z == Zip(answers) IN [j \in 1..Len(z) |-> z[j][1]]

\* The members of the mosaic the threads share. Every pixel of a tile is
\* selected alone, so the pixels after the first are masked alike in a member.
InitFlight ==
    /\ \E n \in 1..MaxFiles, nb \in 1..MaxBands, target \in {"tile", "point"} :
          /\ datasets \in MemberSeqs(n, nb, target)
          /\ \A i \in 1..n : datasets[i].tile.covers =>
                \A j \in 2..NPix : (datasets[i].tile.pix[j] = Masked)
                                      = (datasets[i].tile.pix[2] = Masked)
    /\ calls = [ctl |-> [t \in Threads |-> IdleCall],
                mem |-> [t \in Threads |-> FreshLocals]]
    /\ out = NoCall /\ NoReader /\ NoBuild /\ NoService

\* The call of thread t moves to control state c, its accumulators to m.
Move(t, c, m) ==
    calls' = [ctl |-> [calls.ctl EXCEPT ![t] = c],
              mem |-> [calls.mem EXCEPT ![Locals(t)] = m]]

\* mosaic.py:81-85 / 100-110: a call starts on its thread.
StartCall(t) ==
    /\ calls.ctl[t].pc \in {"idle", "done"}
    /\ \E op \in {"tile", "point"}, reverse \in BOOLEAN, kw \in AllowedOptions :
          /\ op = "tile" => kw = NoCall.allowed
          /\ Move(t, [pc |-> "run", op |-> op, reverse |-> reverse,
                      allowed |-> IF op = "tile" THEN kw ELSE PointKwargs(kw),
                      k |-> 1, res |-> Raised("")],
                  FreshLocals)
    /\ UNCHANGED <<setsVars, serviceVars>>

\* mosaic.py:87-94: one turn of mosaic_reader's loop in the tile() call of
\* thread t: the next asset is read and fed, or the call ends.
TileTurn(t) ==
    LET c == calls.ctl[t]
        m == calls.mem[Locals(t)]
        assets == MosaicAssets(datasets, c.reverse)
        end(r) == Move(t, [c EXCEPT !.pc = "done", !.res = r], m)
    IN  /\ c.pc = "run" /\ c.op = "tile"
        /\ IF c.k > Len(assets)
           THEN end(IF m.cur.fed THEN Returned(m.cur.pix)
                    ELSE Raised("EmptyMosaicError"))
           ELSE LET r == TileReader(datasets, assets[c.k]) IN
                IF r.kind = "raise"
                THEN IF r.err \in MosaicAllowed
                     THEN Move(t, [c EXCEPT !.k = @ + 1], m)
                     ELSE end(r)
                ELSE LET nxt == FirstMethodFeed(m.cur, r.value) IN
                     IF FirstMethodIsDone(nxt)
                     THEN Move(t, [c EXCEPT !.pc = "done", !.res = Returned(nxt.pix)],
                               [m EXCEPT !.cur = nxt])
                     ELSE Move(t, [c EXCEPT !.k = @ + 1], [m EXCEPT !.cur = nxt])
        /\ UNCHANGED <<setsVars, serviceVars>>

\* mosaic.py:106-120: one turn of multi_values' loop in the point() call of
\* thread t: the next asset is read and its answer kept, or the call ends.
PointTurn(t) ==
    LET c == calls.ctl[t]
        m == calls.mem[Locals(t)]
        assets == MosaicAssets(datasets, c.reverse)
    IN  /\ c.pc = "run" /\ c.op = "point"
        /\ IF c.k > Len(assets)
           THEN Move(t, [c EXCEPT !.pc = "done", !.res = Returned(FirstOfEach(m.acc))], m)
           ELSE LET r == PointReader(datasets, assets[c.k]) IN
                IF r.kind = "raise"
                THEN IF r.err \in c.allowed.excs
                     THEN Move(t, [c EXCEPT !.k = @ + 1], m)
                     ELSE Move(t, [c EXCEPT !.pc = "done", !.res = r], m)
                ELSE Move(t, [c EXCEPT !.k = @ + 1],
                          [m EXCEPT !.acc = Append(@, r.value)])
        /\ UNCHANGED <<setsVars, serviceVars>>

NextFlight == \E t \in Threads : StartCall(t) \/ TileTurn(t) \/ PointTurn(t)

SpecFlight == InitFlight /\ [][NextFlight]_vars

\* ------------------------------------------------- the viz application
\* Python Optional values: None, or a value (a list or a string, both
\* sequences here); None and the empty sequence are the falsy ones.
None == [some |-> FALSE, val |-> <<>>]

Some(v) == [some |-> TRUE, val |-> v]

Truthy(o) == o.some /\ o.val # <<>>

\* The bands (assets) of the reader behind the application.
ReaderNames(reader_type) ==
    IF reader_type = "bands" THEN <<"b1", "b2", "b3">>
    ELSE IF reader_type = "assets" THEN <<"asset1", "asset2", "asset3">>
    ELSE <<>>

\* getattr(src_dst, "bands", None) / getattr(src_dst, "assets", None).
SrcNames(reader_type) ==
    IF reader_type = "cog" THEN None ELSE Some(ReaderNames(reader_type))

\* Lists of names a request or the layers option can hold.
NameLists(reader_type) ==
    LET n == ReaderNames(reader_type) IN
    IF n = <<>> THEN {}
    ELSE {<<n[1]>>, <<n[3], n[2]>>}

\* app.py:73-92 and 104-125: the applications viz(...) can build; the layers
\* of a bands or assets reader are names of that reader.
Apps ==
    UNION {{[reader_type |-> rt, layers |-> l, has_mvt |-> mvt] :
               l \in {None, Some(<<>>)} \cup {Some(v) : v \in NameLists(rt)},
               mvt \in BOOLEAN} :
           rt \in {"cog", "bands", "assets"}}

\* The routes whose handler opens the reader, adapts the options and reads.
ReadRoutes ==
    {"info", "info_geojson", "statistics", "point", "preview", "part", "feature"}

\* The dependency of the route: the info routes take no expression
\* (app.py:116-130).
TakesExpression(route) == route \notin {"info", "info_geojson"}

Expressions == {None, Some(<<>>), Some(<<"b", "1", "*", "2">>)}

\* The options a request gives: its bands (assets) and its expression.
Options(reader_type, route) ==
    {[names |-> n, expression |-> e] :
        n \in {None} \cup {Some(Reverse(v)) : v \in NameLists(reader_type)},
        e \in IF TakesExpression(route) THEN Expressions ELSE {None}}

\* enums.py:9-27 and 63-82: the tile formats and their media types.
RasterFormats == {"png", "npy", "tif", "jpeg", "jpg", "jp2", "webp", "pngraw"}

VectorTileFormat == {"pbf", "mvt"}

MediaType(format) ==
    CASE format = "tif" -> "image/tiff; application=geotiff"
      [] format = "jp2" -> "image/jp2"
      [] format \in {"png", "pngraw"} -> "image/png"
      [] format = "jpeg" -> "image/jpeg"
      [] format = "jpg" -> "image/jpg"
      [] format = "webp" -> "image/webp"
      [] format = "npy" -> "application/x-binary"
      [] format \in {"pbf", "mvt"} -> "application/x-protobuf"

\* The format, the feature_type ("Only for MVT") and the fullness of the tile
\* read (no masked pixel) in a tile request.
TileAsks ==
    {[format |-> None, feature_type |-> None, full |-> f] : f \in BOOLEAN}
        \cup {[format |-> Some("png"), feature_type |-> None, full |-> TRUE]}
        \cup {[format |-> Some(v), feature_type |-> t, full |-> TRUE] :
                 v \in VectorTileFormat,
                 t \in {None, Some(<<"point">>), Some(<<"polygon">>)}}

\* Mutant of update_params: the configured layers replace the request's names.
update_params_layers_first(a, src_names, options) ==
    IF Truthy(a.layers) /\ a.reader_type # "cog"
    THEN [options EXCEPT !.names = a.layers]
    ELSE options

\* app.py:158-173: viz._update_params.
update_params(a, src_names, options) ==
    IF Truthy(options.expression) \/ a.reader_type = "cog" THEN options
    ELSE LET default == IF Truthy(a.layers) THEN a.layers ELSE src_names IN
         IF Truthy(default) /\ ~Truthy(options.names)
         THEN [options EXCEPT !.names = default]
         ELSE options

\* `with self.reader(...) as src_dst:` (app.py:201 and the other routes): the
\* reader is entered, and left when the block ends or raises.
EnterReader(rs, id) == rs \cup {id}

ExitReader(rs, id) == rs \ {id}

\* Mutant of WithReader: the reader is closed by the last statement of the
\* block, which a raise skips.
WithReaderClosedLast(rs, id, raised) ==
    IF raised THEN EnterReader(rs, id) ELSE ExitReader(EnterReader(rs, id), id)

WithReader(rs, id, raised) == ExitReader(EnterReader(rs, id), id)

\* What the reader does when the handler reads: it answers, or it raises
\* TileOutsideBounds / PointOutsideBounds, or another error; "open" is the
\* reader's constructor raising.
Faults == {"none", "outside", "error", "open"}

\* titiler add_exception_handlers(DEFAULT_STATUS_CODES) (app.py:134).
StatusOf(fault) ==
    IF fault = "none" THEN 200 ELSE IF fault = "outside" THEN 404 ELSE 500

NoResp ==
    [n |-> 0, route |-> "", status |-> 0, media |-> "", given |-> <<>>,
     options |-> <<>>, format |-> None, feature_type |-> None, fault |-> "",
     query |-> <<>>, url |-> <<>>]

InitViz ==
    /\ app \in Apps
    /\ resp = NoResp
    /\ readers = {}
    /\ raster = <<>> /\ reply = <<>> /\ log = <<>>
    /\ cli = <<>> /\ fsys = {} /\ events = <<>>
    /\ live = <<>> /\ servers = <<>>
    /\ NoSets /\ NoFlight

\* app.py:199-204, 222-246, 259-280, 288-316, 328-362, 385-431, 449-484: the
\* handlers of /info, /info.geojson, /statistics, /point, /preview, /bbox and
\* /feature.
ReadRoute ==
    /\ resp.n < MaxReq
    /\ \E route \in ReadRoutes, fault \in Faults :
       \E given \in Options(app.reader_type, route) :
          LET id == resp.n + 1
              used == IF fault = "open" THEN given
                      ELSE update_params(app, SrcNames(app.reader_type), given)
          IN  /\ resp' = [NoResp EXCEPT !.n = id, !.route = route,
                                        !.status = StatusOf(fault),
                                        !.media = IF fault = "none"
                                                  THEN "application/json" ELSE "",
                                        !.given = given, !.options = used,
                                        !.fault = fault]
              /\ readers' = IF fault = "open" THEN readers
                            ELSE WithReader(readers, id, fault # "none")
    /\ UNCHANGED <<app, setsVars, flightVars, tornadoVars, cliVars, clientVars>>

\* Mutant of tile_response: feature_type and the encoder are tested before
\* the tile is read.
tile_response_checked_first(a, format, feature_type, fault, full) ==
    IF format.some /\ format.val \in VectorTileFormat /\ ~a.has_mvt
    THEN [status |-> 500, media |-> ""]
    ELSE IF format.some /\ format.val \in VectorTileFormat /\ ~Truthy(feature_type)
    THEN [status |-> 500, media |-> ""]
    ELSE IF fault # "none" THEN [status |-> StatusOf(fault), media |-> ""]
    ELSE IF format.some
    THEN [status |-> 200, media |-> MediaType(format.val)]
    ELSE [status |-> 200, media |-> IF full THEN "image/jpeg" ELSE "image/png"]

\* app.py:546-600: the tile is read first; then, for a vector format, the
\* encoder and feature_type are tested; a raster tile without format is
\* rendered as jpeg when it has no masked pixel and as png otherwise.
tile_response(a, format, feature_type, fault, full) ==
    IF fault # "none" THEN [status |-> StatusOf(fault), media |-> ""]
    ELSE IF format.some /\ format.val \in VectorTileFormat
    THEN IF ~a.has_mvt THEN [status |-> 500, media |-> ""]
         ELSE IF ~Truthy(feature_type) THEN [status |-> 500, media |-> ""]
         ELSE [status |-> 200, media |-> MediaType(format.val)]
    ELSE IF format.some
    THEN [status |-> 200, media |-> MediaType(format.val)]
    ELSE [status |-> 200, media |-> IF full THEN "image/jpeg" ELSE "image/png"]

\* app.py:503-600: the handler of /tiles/WebMercatorQuad/{z}/{x}/{y}[.{format}].
TileRoute ==
    /\ resp.n < MaxReq
    /\ \E fault \in Faults, ask \in TileAsks :
       \E given \in Options(app.reader_type, "tile") :
          LET id == resp.n + 1
              used == IF fault = "open" THEN given
                      ELSE update_params(app, SrcNames(app.reader_type), given)
              r == tile_response(app, ask.format, ask.feature_type, fault, ask.full)
          IN  /\ resp' = [NoResp EXCEPT !.n = id, !.route = "tile",
                                        !.status = r.status, !.media = r.media,
                                        !.given = given, !.options = used,
                                        !.format = ask.format,
                                        !.feature_type = ask.feature_type,
                                        !.fault = fault]
              /\ readers' = IF fault = "open" THEN readers
                            ELSE WithReader(readers, id, fault # "none")
    /\ UNCHANGED <<app, setsVars, flightVars, tornadoVars, cliVars, clientVars>>

\* ------------------------------------------------------- tile URL templates
\* A URL is a sequence of tokens: the path template, a parameter name or a
\* format as one token each, and the characters of a parameter value.
\* The parameters a /tilejson.json request can carry, values as decoded.
Params ==
    {<<"tile_format", <<"pbf">>>>, <<"rescale", <<"0", ",", "9">>>>,
     <<"bidx", <<"1">>>>, <<"bidx", <<"2", " ">>>>}

\* request.query_params._list: the parameters in request order; tile_format
\* is a single-valued parameter.
RECURSIVE QueriesOfLen(_)
QueriesOfLen(n) ==
    IF n = 0 THEN {<<>>}
    ELSE {Append(q, p) : q \in QueriesOfLen(n - 1), p \in Params}

Queries ==
    {q \in UNION {QueriesOfLen(n) : n \in 0..MaxParams} :
        Cardinality({i \in 1..Len(q) : q[i][1] = "tile_format"}) <= 1}

\* The queries the other routes' checks need: none, one and two parameters.
FewQueries == {q \in Queries : Len(q) <= 1 \/ (Len(q) = 2 /\ q[1][1] = "bidx")}

\* The value of the last tile_format parameter, or None.
TileFormatOf(q) ==
    LET at == {i \in 1..Len(q) : q[i][1] = "tile_format"} IN
    IF at = {} THEN None
    ELSE Some(q[CHOOSE i \in at : \A j \in at : j <= i][2][1])

\* urllib.parse.quote_plus of one character.
QuotePlus(c) ==
    IF c = " " THEN <<"+">>
    ELSE IF c = "," THEN <<"%", "2", "C">>
    ELSE <<c>>

RECURSIVE QuoteAll(_)
QuoteAll(v) == IF v = <<>> THEN <<>> ELSE QuotePlus(Head(v)) \o QuoteAll(Tail(v))

\* urllib.parse.urlencode of a list of (key, value) pairs.
RECURSIVE urlencode(_)
urlencode(qs) ==
    IF qs = <<>> THEN <<>>
    ELSE <<qs[1][1], "=">> \o QuoteAll(qs[1][2])
            \o (IF Len(qs) = 1 THEN <<>> ELSE <<"&">> \o urlencode(Tail(qs)))

\* request.url_for("tile", z="{z}", x="{x}", y="{y}"[, format=...]): the route
\* with or without the format extension (app.py:497-502).
url_for_tile(format) ==
    IF format.some
    THEN <<"http://host/tiles/WebMercatorQuad/{z}/{x}/{y}", ".", format.val>>
    ELSE <<"http://host/tiles/WebMercatorQuad/{z}/{x}/{y}">>

\* Mutant of tilejson_url: every parameter of the request is passed on.
tilejson_url_all_params(q) ==
    url_for_tile(TileFormatOf(q))
        \o (IF q # <<>> THEN <<"?">> \o urlencode(q) ELSE <<>>)

\* app.py:630-642: the tile URL of /tilejson.json.
tilejson_url(q) ==
    LET qs == SelectSeq(q, LAMBDA p : p[1] \notin {"tile_format"}) IN
    url_for_tile(TileFormatOf(q))
        \o (IF qs # <<>> THEN <<"?">> \o urlencode(qs) ELSE <<>>)

\* app.py:689-704: the tile URL of /WMTSCapabilities.xml; tile_format
\* defaults to png.
wmts_url(q) ==
    LET qs == SelectSeq(q, LAMBDA p : p[1] \notin {"tile_format", "REQUEST", "SERVICE"})
        tf == TileFormatOf(q)
    IN  <<"http://host/tiles/WebMercatorQuad/{TileMatrix}/{TileCol}/{TileRow}", ".",
          IF tf.some THEN tf.val ELSE "png">>
            \o (IF qs # <<>> THEN <<"?">> \o urlencode(qs) ELSE <<>>)

\* app.py:609-661 and 667-742: the handlers of /tilejson.json and
\* /WMTSCapabilities.xml: the URL is built, then the reader is opened for the
\* bounds and zooms.
UrlRoute(route, Q) ==
    /\ VizServes
    /\ resp.n < MaxReq
    /\ \E q \in Q, fault \in {"none", "error", "open"} :
          LET id == resp.n + 1 IN
          /\ resp' = [NoResp EXCEPT
                        !.n = id, !.route = route, !.status = StatusOf(fault),
                        !.media = IF fault # "none" THEN ""
                                  ELSE IF route = "tilejson" THEN "application/json"
                                  ELSE "application/xml",
                        !.fault = fault, !.query = q,
                        !.url = IF fault # "none" THEN <<>>
                                ELSE IF route = "tilejson" THEN tilejson_url(q)
                                ELSE wmts_url(q)]
          /\ readers' = IF fault = "open" THEN readers
                        ELSE WithReader(readers, id, fault # "none")
    /\ UNCHANGED <<app, setsVars, flightVars, tornadoVars, cliVars, clientVars>>

TileJSONRoute(Q) == UrlRoute("tilejson", Q)

WMTSRoute(Q) == UrlRoute("wmts", Q)

NextViz ==
    ReadRoute \/ TileRoute \/ TileJSONRoute(FewQueries) \/ WMTSRoute(FewQueries)

SpecViz == InitViz /\ [][NextViz]_vars

\* ---------------------------------------------------------- tornado server
\* The tile server of server.py over a RasterTiles object (raster.py). The
\* world is a grid of 2^MaxZoom columns and rows at the deepest zoom; rows
\* count from the north. raster.bounds is (west, south, east, north), the
\* column or row each edge of the raster falls in.
Pow2(n) == IF n = 0 THEN 1 ELSE IF n = 1 THEN 2 ELSE IF n = 2 THEN 4 ELSE 8

Cells == 0..(Pow2(MaxZoom) - 1)

Rasters ==
    {<<w, s, e, n>> : w \in Cells, s \in Cells, e \in Cells, n \in Cells}
        \ {b \in Cells \X Cells \X Cells \X Cells : b[1] > b[3] \/ b[4] > b[2]}

\* mercantile.tile(lng, lat, zoom): the tile of a zoom that holds a position.
mercantile_tile(lng, lat, z) ==
    [x |-> lng \div Pow2(MaxZoom - z), y |-> lat \div Pow2(MaxZoom - z)]

\* raster.py:186-195
tile_exists(bounds, z, x, y) ==
    LET mintile == mercantile_tile(bounds[1], bounds[4], z)
        maxtile == mercantile_tile(bounds[3], bounds[2], z)
    IN  /\ x <= maxtile.x + 1
        /\ x >= mintile.x
        /\ y <= maxtile.y + 1
        /\ y >= mintile.y

\* The tiles a request can name: every tile of every zoom of the grid.
Tiles == {t \in (0..MaxZoom) \X Cells \X Cells : t[2] < Pow2(t[1]) /\ t[3] < Pow2(t[1])}

NoReply ==
    [n |-> 0, handler |-> "", tile |-> <<>>, status |-> 0, media |-> "",
     query |-> <<>>, url |-> <<>>]

InitTornadoOver(rasters) ==
    /\ raster \in rasters
    /\ reply = NoReply
    /\ log = <<>>
    /\ app = <<>> /\ resp = <<>> /\ readers = {}
    /\ cli = <<>> /\ fsys = {} /\ events = <<>>
    /\ live = <<>> /\ servers = <<>>
    /\ NoSets /\ NoFlight

InitTornado == InitTornadoOver(Rasters)

\* Mutant of get_tile: the raster is read before the existence check.
get_tile_read_first(exists, read, failed) ==
    IF failed THEN [status |-> 500, log |-> <<read>>]
    ELSE IF ~exists THEN [status |-> 404, log |-> <<read, "tile_exists">>]
    ELSE [status |-> 200, log |-> <<read, "tile_exists">>]

\* server.py:114-141 and 183-189: _get_tile of the two tile handlers, as the
\* status of the reply and the calls made on the raster, in order.
get_tile(exists, read, failed) ==
    IF ~exists THEN [status |-> 404, log |-> <<"tile_exists">>]
    ELSE IF failed THEN [status |-> 500, log |-> <<"tile_exists", read>>]
    ELSE [status |-> 200, log |-> <<"tile_exists", read>>]

TileHandler(handler, read, media) ==
    /\ TornadoServes
    /\ reply.n < MaxReq
    /\ \E t \in Tiles, failed \in BOOLEAN :
          LET got == get_tile(tile_exists(raster, t[1], t[2], t[3]), read, failed) IN
          /\ reply' = [NoReply EXCEPT !.n = reply.n + 1, !.handler = handler,
                                      !.tile = t, !.status = got.status,
                                      !.media = IF got.status = 200 THEN media ELSE ""]
          /\ log' = got.log
    /\ UNCHANGED <<raster, setsVars, flightVars, vizVars, cliVars, clientVars>>

\* server.py:106-156
RasterTileHandler == TileHandler("RasterTileHandler", "read_tile", "image/png")

\* server.py:175-200
MVTileHandler ==
    TileHandler("MVTileHandler", "read_tile_mvt", "application/x-protobuf")

\* tornado's request.arguments: the values of each name, names in the order
\* of their first appearance in the query.
Arguments(q) ==
    LET firsts == SelectSeq([i \in 1..Len(q) |-> i],
                            LAMBDA i : \A j \in 1..(i - 1) : q[j][1] # q[i][1])
    IN  [k \in 1..Len(firsts) |->
            <<q[firsts[k]][1],
              [v \in 1..Len(SelectSeq(q, LAMBDA p : p[1] = q[firsts[k]][1])) |->
                  SelectSeq(q, LAMBDA p : p[1] = q[firsts[k]][1])[v][2]]>>]

\* server.py:249-257: "&".join of the f"{k}={v[0]}" of the arguments.
RECURSIVE JoinFirsts(_)
JoinFirsts(args) ==
    IF args = <<>> THEN <<>>
    ELSE <<args[1][1], "=">> \o args[1][2][1]
            \o (IF Len(args) = 1 THEN <<>> ELSE <<"&">> \o JoinFirsts(Tail(args)))

\* server.py:232-264: the handler of /tilejson.json. querystring.pop of a
\* tile_format that is not among the arguments raises KeyError.
TileJSONHandler(Q) ==
    /\ TornadoServes
    /\ reply.n < MaxReq
    /\ \E q \in Q :
          LET tile_format == TileFormatOf(q)
              querystring == SelectSeq(Arguments(q), LAMBDA a : a[1] # "tile_format")
          IN  reply' =
                IF ~tile_format.some
                THEN [NoReply EXCEPT !.n = reply.n + 1, !.handler = "TileJSONHandler",
                                     !.status = 500, !.query = q]
                ELSE [NoReply EXCEPT
                        !.n = reply.n + 1, !.handler = "TileJSONHandler",
                        !.status = 200, !.media = "application/json", !.query = q,
                        !.url = <<"http://127.0.0.1:8080/{z}/{x}/{y}", ".",
                                  tile_format.val>>
                                  \o (IF querystring # <<>>
                                      THEN <<"?">> \o JoinFirsts(querystring)
                                      ELSE <<>>)]
    /\ log' = <<>>
    /\ UNCHANGED <<raster, setsVars, flightVars, vizVars, cliVars, clientVars>>

NextTornado ==
    RasterTileHandler \/ MVTileHandler \/ TileJSONHandler(FewQueries)

SpecTornado == InitTornado /\ [][NextTornado]_vars

\* The two /tilejson.json handlers under every query of the bound, each in
\* its own server.
InitUrls ==
    \/ InitViz /\ app.layers = None /\ ~app.has_mvt
    \/ InitTornadoOver({[i \in 1..4 |-> 0]})

NextUrls == TileJSONRoute(Queries) \/ TileJSONHandler(Queries)

SpecUrls == InitUrls /\ [][NextUrls]_vars

\* -------------------------------------------------------- rio viz command
\* scripts/cli.py. A token is the sequence of its characters.
Tokens ==
    {<<>>, <<"p", "k", ".", "a">>, <<"p", "k">>, <<"s", "k", ".", "a">>,
     <<"p">>, <<"k", "p", "k">>}

\* The extensions of the input path, and str.lower of each.
Extensions == {".tif", ".TIF", ".vrt"}

Lower(ext) == IF ext = ".TIF" THEN ".tif" ELSE ext

\* The input file, and the file tempfile.NamedTemporaryFile creates.
SrcPath == "input"

TmpPath == "tmp"

\* Mutant of convert: every token is taken as it is.
convert_any(value) == [raised |-> FALSE, value |-> value]

\* cli.py:36-51: MbxTokenType.convert; it raises click.ClickException.
convert(value) ==
    IF value = <<>> THEN [raised |-> FALSE, value |-> <<>>]
    ELSE IF Len(value) >= 2 /\ SubSeq(value, 1, 2) = <<"p", "k">>
         THEN [raised |-> FALSE, value |-> value]
    ELSE [raised |-> TRUE, value |-> <<>>]

\* cli.py:156-161: whether a temporary COG has to be made.
NeedsCog(c) ==
    /\ Lower(c.ext) = ".tif"
    /\ ~c.reader
    /\ ~c.no_check
    /\ ~c.cog

\* Mutant of LeaveTemporaryRasterFile: the file is removed on a normal exit
\* only.
LeaveTemporaryRasterFileNormalOnly(fs, made, raised) ==
    IF made /\ ~raised THEN fs \ {TmpPath} ELSE fs

\* cli.py:20-28 and 155: leaving the ExitStack runs the finally of every
\* TemporaryRasterFile entered, whether or not an error is on its way.
LeaveTemporaryRasterFile(fs, made, raised) ==
    IF made THEN fs \ {TmpPath} ELSE fs

\* The steps of the command body after which an error can leave it, in order.
BodySteps == <<"cog_translate", "viz", "launch">>

\* The calls of the body up to a failing one (up to the start of the server
\* when none fails), for the options of the command.
BodyEvents(c, failing) ==
    LET all == (IF NeedsCog(c)
                THEN <<"cog_validate", "TemporaryRasterFile", "cog_translate">>
                ELSE IF Lower(c.ext) = ".tif" /\ ~c.reader /\ ~c.no_check
                THEN <<"cog_validate">> ELSE <<>>)
               \o <<"viz">>
               \o (IF c.server_only THEN <<>> ELSE <<"launch">>)
               \o <<"start">>
        at  == {i \in 1..Len(all) : all[i] = failing}
    IN  IF at = {} THEN all ELSE SubSeq(all, 1, CHOOSE i \in at : TRUE)

NoCli ==
    [phase |-> "invoked", token |-> <<>>, ext |-> ".tif", cog |-> TRUE,
     reader |-> FALSE, no_check |-> FALSE, server_only |-> FALSE,
     served |-> "", exit_code |-> -1]

InitCli ==
    /\ \E token \in Tokens, ext \in Extensions :
       \E cog \in BOOLEAN, reader \in BOOLEAN, no_check \in BOOLEAN,
          server_only \in BOOLEAN :
          cli = [NoCli EXCEPT !.token = token, !.ext = ext, !.cog = cog,
                              !.reader = reader, !.no_check = no_check,
                              !.server_only = server_only]
    /\ fsys = {SrcPath}
    /\ events = <<>>
    /\ app = <<>> /\ resp = <<>> /\ readers = {}
    /\ raster = <<>> /\ reply = <<>> /\ log = <<>>
    /\ live = <<>> /\ servers = <<>>
    /\ NoSets /\ NoFlight

CliRuns == DOMAIN cli # {}

\* cli.py:72-195: the command from its invocation to the start of the server:
\* click converts the options, then the body runs. An error in cog_translate,
\* in app.viz(...) or in click.launch leaves the ExitStack and ends the
\* command.
Invoke ==
    /\ CliRuns
    /\ cli.phase = "invoked"
    /\ LET token == convert(cli.token) IN
       IF token.raised
       THEN /\ cli' = [cli EXCEPT !.phase = "ended", !.exit_code = 1]
            /\ events' = <<"convert">>
            /\ fsys' = fsys
       ELSE \E failing \in {"none"} \cup Range(BodySteps) :
               LET done   == BodyEvents(cli, failing)
                   raised == done[Len(done)] # "start"
                   made   == \E i \in 1..Len(done) : done[i] = "TemporaryRasterFile"
               IN  /\ events' = <<"convert">> \o done
                            \o (IF raised /\ made THEN <<"remove">> ELSE <<>>)
                   /\ fsys' = IF raised
                              THEN LeaveTemporaryRasterFile(
                                       fsys \cup (IF made THEN {TmpPath} ELSE {}),
                                       made, TRUE)
                              ELSE fsys \cup (IF made THEN {TmpPath} ELSE {})
                   /\ cli' = IF raised
                             THEN [cli EXCEPT !.phase = "ended", !.exit_code = 1]
                             ELSE [cli EXCEPT !.phase = "serving",
                                              !.served = IF made THEN TmpPath
                                                         ELSE SrcPath]
    /\ UNCHANGED <<setsVars, flightVars, vizVars, tornadoVars, clientVars>>

\* cli.py:195: application.start() returns, or an error (an interrupt among
\* them) leaves it; the ExitStack is left either way.
ServerEnds ==
    /\ CliRuns
    /\ cli.phase = "serving"
    /\ \E raised \in BOOLEAN :
          /\ cli' = [cli EXCEPT !.phase = "ended",
                                !.exit_code = IF raised THEN 1 ELSE 0]
          /\ fsys' = LeaveTemporaryRasterFile(fsys, cli.served = TmpPath, raised)
          /\ events' = events \o (IF cli.served = TmpPath /\ TmpPath \notin fsys'
                                  THEN <<"remove">> ELSE <<>>)
    /\ UNCHANGED <<setsVars, flightVars, vizVars, tornadoVars, clientVars>>

NextCli == Invoke \/ ServerEnds

SpecCli == InitCli /\ [][NextCli]_vars

\* -------------------------------------------------------- notebook client
\* app.py:831-850: Client over server_thread's ServerManager, a registry of
\* one server per key. A server is [key, alive]; live maps a key to the
\* position in servers of the server registered under it, 0 for none.
Keys == {"127.0.0.1:8080", "127.0.0.1:8081"}

NoServer == 0

\* ServerManager.is_server_live(key)
is_server_live(reg, svs, key) == reg[key] # NoServer /\ svs[reg[key]].alive

\* ServerManager.shutdown_server(key): the server registered under the key
\* is taken out of the registry and stopped; no server, nothing done.
shutdown_server(reg, svs, key) ==
    IF reg[key] = NoServer THEN [live |-> reg, servers |-> svs]
    ELSE [live |-> [reg EXCEPT ![key] = NoServer],
          servers |-> [svs EXCEPT ![reg[key]].alive = FALSE]]

\* ServerManager.add_server(key, server)
add_server(reg, svs, key, server) ==
    [live |-> [reg EXCEPT ![key] = Len(svs) + 1],
     servers |-> Append(svs, server)]

\* Mutant of post_init: the new server is registered without a look at the
\* one that is live under the key.
post_init_no_shutdown(reg, svs, key, started) ==
    IF ~started THEN [live |-> reg, servers |-> svs]
    ELSE add_server(reg, svs, key, [key |-> key, alive |-> TRUE])

\* app.py:837-846: Client.__attrs_post_init__; ServerThread(...) starts the
\* server or raises.
post_init(reg, svs, key, started) ==
    LET before == IF is_server_live(reg, svs, key)
                  THEN shutdown_server(reg, svs, key)
                  ELSE [live |-> reg, servers |-> svs]
    IN  IF ~started THEN before
        ELSE add_server(before.live, before.servers, key,
                        [key |-> key, alive |-> TRUE])

InitClient ==
    /\ live = [k \in Keys |-> NoServer]
    /\ servers = <<>>
    /\ app = <<>> /\ resp = <<>> /\ readers = {}
    /\ raster = <<>> /\ reply = <<>> /\ log = <<>>
    /\ cli = <<>> /\ fsys = {} /\ events = <<>>
    /\ NoSets /\ NoFlight

\* Client(src_path, host=..., port=...)
NewClient ==
    /\ DOMAIN live # {}
    /\ Len(servers) < MaxClients
    /\ \E key \in Keys, started \in BOOLEAN :
          LET after == post_init(live, servers, key, started) IN
          /\ live' = after.live
          /\ servers' = after.servers
    /\ UNCHANGED <<setsVars, flightVars, vizVars, tornadoVars, cliVars>>

\* app.py:848-850: Client.shutdown() of any client made so far.
Shutdown ==
    /\ DOMAIN live # {}
    /\ \E i \in 1..Len(servers) :
          LET after == shutdown_server(live, servers, servers[i].key) IN
          /\ live' = after.live
          /\ servers' = after.servers
    /\ UNCHANGED <<setsVars, flightVars, vizVars, tornadoVars, cliVars>>

\* The thread of a server ends by itself; the registry is not told.
ServerDies ==
    /\ DOMAIN live # {}
    /\ \E i \in 1..Len(servers) :
          /\ servers[i].alive
          /\ servers' = [servers EXCEPT ![i].alive = FALSE]
    /\ UNCHANGED <<live, setsVars, flightVars, vizVars, tornadoVars, cliVars>>

NextClient == NewClient \/ Shutdown \/ ServerDies

SpecClient == InitClient /\ [][NextClient]_vars

\* ------------------------------------------------------ claims: mosaic
Covering == {i \in 1..Len(datasets) : datasets[i].tile.covers}

Answering == {i \in 1..Len(datasets) : datasets[i].point.covers}

\* Position of member i in the order the last call went through the files.
Rank(i) == IF out.reverse THEN Len(datasets) + 1 - i ELSE i

\* The member of the non-empty set S that the last call met first.
FirstOf(S) == CHOOSE i \in S : \A j \in S : Rank(i) <= Rank(j)

ValidAt(p) == {i \in Covering : datasets[i].tile.pix[p] # Masked}

WithValidPixel == {i \in Covering : \E p \in 1..NPix : datasets[i].tile.pix[p] # Masked}

\* C1 (as amended): a tile that is returned holds, at every pixel, the value of
\* the first file, in construction order or in the reverse of it when reverse
\* is true, that has a valid pixel there, and is masked where no file has one:
\* a later file fills the pixels that every earlier file leaves masked.
C1_FirstValidPixel ==
    (out.op = "tile" /\ out.kind = "return") =>
        \A p \in 1..NPix :
            out.value[p] = IF ValidAt(p) = {} THEN Masked
                           ELSE datasets[FirstOf(ValidAt(p))].tile.pix[p]

\* C1 witness: a reversed tile call returned pixels of two different files.
C1_Witness ==
    /\ out.op = "tile" /\ out.reverse /\ out.kind = "return"
    /\ \E p, q \in 1..NPix :
          out.value[p] # Masked /\ out.value[q] # Masked /\ out.value[p] # out.value[q]

\* C1 as stated: the tile returned is the tile of the first file in the order
\* that yields any valid pixel, and later files contribute no pixel.
C1_Original ==
    (out.op = "tile" /\ WithValidPixel # {}) =>
        (out.kind = "return" /\ out.value = datasets[FirstOf(WithValidPixel)].tile.pix)

\* C2 (as amended): when all the files cover the point, point() returns the
\* values of the first file in the order alone, one per band: [10] for three
\* files answering [10], [20], [30].
C2_FirstFileValues ==
    (out.op = "point" /\ Answering = 1..Len(datasets)) =>
        /\ out.kind = "return"
        /\ out.value = datasets[FirstOf(1..Len(datasets))].point.values
        /\ (~out.reverse /\ Len(datasets[1].point.values) = 1) => out.value = <<10>>

\* C2 witness: three files answering [10], [20], [30], read in file order.
C2_Witness ==
    /\ out.op = "point" /\ ~out.reverse /\ Len(datasets) = 3
    /\ \A i \in 1..3 : datasets[i].point.covers /\ datasets[i].point.values = <<10 * i>>
    /\ out.value = <<10>>

\* C2 as stated: three files answering [10], [20], [30] give [10, 20, 30], one
\* value per file in file order.
C2_Original ==
    (/\ out.op = "point" /\ ~out.reverse /\ Len(datasets) = 3
     /\ \A i \in 1..3 : datasets[i].point.covers /\ datasets[i].point.values = <<10 * i>>)
        => (out.kind = "return" /\ out.value = <<10, 20, 30>>)

\* C3: when some file answered, the list point() returns has one entry per
\* band, entry k is the k-th value of the first file, in the order of the
\* call, among the files that answered, and no value of a later file is in it.
C3_FirstAnsweringFile ==
    (out.op = "point" /\ out.kind = "return" /\ Answering # {}) =>
        LET f == FirstOf(Answering) IN
        /\ Len(out.value) = Len(datasets[f].point.values)
        /\ \A k \in 1..Len(out.value) : out.value[k] = datasets[f].point.values[k]
        /\ \A i \in Answering \ {f} : \A k \in 1..Len(out.value) :
               \A j \in 1..Len(datasets[i].point.values) :
                   out.value[k] # datasets[i].point.values[j]

\* C3 witness: a reversed point call on two bands; the file met first is
\* outside the point, and two later files answered.
C3_Witness ==
    /\ out.op = "point" /\ out.reverse /\ out.kind = "return"
    /\ Len(out.value) = 2
    /\ Cardinality(Answering) >= 2
    /\ Len(datasets) \notin Answering

\* C4 (as amended): when the caller passes no allowed_exceptions option, or one
\* that holds PointOutsideBounds, point() returns: a file outside the point
\* contributes nothing and its PointOutsideBounds does not reach the caller.
\* With a caller's allowed_exceptions that lacks PointOutsideBounds, the
\* exception of the first file outside the point reaches the caller.
C4_CaughtUnlessOverridden ==
    out.op = "point" =>
        IF ~out.allowed.given \/ "PointOutsideBounds" \in out.allowed.excs
        THEN /\ out.kind = "return"
             /\ out.value = IF Answering = {} THEN <<>>
                            ELSE datasets[FirstOf(Answering)].point.values
        ELSE Answering # 1..Len(datasets) =>
                 (out.kind = "raise" /\ out.err = "PointOutsideBounds")

\* C4 witness: no option given, the first file is outside the point, another
\* one answered, and point() returned.
C4_Witness ==
    /\ out.op = "point" /\ ~out.allowed.given /\ ~out.reverse
    /\ 1 \notin Answering /\ Answering # {}
    /\ out.kind = "return" /\ out.value # <<>>

\* C4 as stated: whatever the options, PointOutsideBounds never reaches the
\* caller of point().
C4_Original ==
    out.op = "point" => ~(out.kind = "raise" /\ out.err = "PointOutsideBounds")

\* C5 as stated: a point query outside every member file ends in an error,
\* never in a returned list.
C5_OutsideAllIsError ==
    (out.op = "point" /\ Answering = {}) =>
        out.kind = "raise"

\* C6 (as amended): when no member file covers the tile, tile() returns no
\* image and ends in EmptyMosaicError: the TileOutsideBounds of every file is
\* swallowed by mosaic_reader, which then finds that nothing was fed.
C6_NoCoverIsEmptyMosaic ==
    (out.op = "tile" /\ Covering = {}) =>
        (out.kind = "raise" /\ out.err = "EmptyMosaicError" /\ out.value = <<>>)

\* C6 witness: a tile call on several files, none covering the tile.
C6_Witness ==
    out.op = "tile" /\ Covering = {} /\ Len(datasets) >= 2 /\ out.kind = "raise"

\* C6 as stated: when no member file covers the tile, tile() fails with
\* TileOutsideBounds.
C6_Original ==
    (out.op = "tile" /\ Covering = {}) =>
        (out.kind = "raise" /\ out.err = "TileOutsideBounds")

\* C7: when exactly one member file covers the tile, tile() returns the pixels
\* of that file, wherever the file stands in the list and for both values of
\* reverse.
C7_OnlyCoveringFile ==
    (out.op = "tile" /\ Cardinality(Covering) = 1) =>
        \A c \in Covering : out.kind = "return" /\ out.value = datasets[c].tile.pix

\* C7 witness: the only covering file is met last, after two files that do
\* not cover the tile, and its partly masked pixels are returned.
C7_Witness ==
    /\ out.op = "tile" /\ Len(datasets) = 3
    /\ \E c \in 1..3 :
          /\ Covering = {c}
          /\ Rank(c) = 3
          /\ \E p, q \in 1..NPix : out.value[p] = c /\ out.value[q] = Masked

\* C8 as stated: preview, part and feature end in NotImplementedError whatever
\* arguments are passed.
C8_AlwaysNotImplemented ==
    out.op \in {"preview", "part", "feature"} =>
        (out.kind = "raise" /\ out.err = "NotImplementedError")

\* ---------------------------------------- claims: bands / assets readers
\* The number a string of decimal digits writes, -1 when it is no such string
\* or has a leading zero.
DigitValue(c) == IF \E d \in 1..10 : Digit[d] = c
                 THEN (CHOOSE d \in 1..10 : Digit[d] = c) - 1 ELSE -1

RECURSIVE Number(_)
Number(chars) ==
    IF Len(chars) = 0 \/ DigitValue(chars[Len(chars)]) < 0 THEN -1
    ELSE IF Len(chars) = 1 THEN DigitValue(chars[1])
    ELSE LET hi == Number(SubSeq(chars, 1, Len(chars) - 1)) IN
         IF hi <= 0 THEN -1 ELSE 10 * hi + DigitValue(chars[Len(chars)])

\* C9: on a constructed reader, resolving the i-th logical name returns
\* files[i], for every i; a string that is no logical name fails with
\* InvalidBandName and returns no locator.
C9_ResolveRoundTrip ==
    rout.op = "get_url" =>
        /\ \A i \in 1..Len(names) :
               rout.name = names[i] => (rout.kind = "return" /\ rout.value = files[i])
        /\ (\A i \in 1..Len(names) : rout.name # names[i]) =>
               (rout.kind = "raise" /\ rout.err = "InvalidBandName" /\ rout.value = <<>>)

\* C9 witness: the last of several names was resolved to the last file, which
\* differs from the first.
C9_Witness ==
    /\ rout.op = "get_url" /\ Len(files) >= 2
    /\ rout.name = names[Len(names)]
    /\ rout.kind = "return" /\ rout.value = files[Len(files)]
    /\ files[Len(files)] # files[1]

\* C10: a constructed reader over n >= 1 files has n logical names, pairwise
\* distinct; the name at 0-based position i is "b" (bands) or "asset" (assets)
\* followed by the decimal writing of i + 1, whatever the files are.
C10_NamesByPosition ==
    phase = "ready" =>
        /\ Len(files) >= 1
        /\ Len(names) = Len(files)
        /\ \A i, j \in 1..Len(names) : i # j => names[i] # names[j]
        /\ \A i \in 1..Len(names) :
               LET pre == IF mode = "bands" THEN 1 ELSE 5 IN
               /\ Len(names[i]) > pre
               /\ SubSeq(names[i], 1, pre) =
                      (IF mode = "bands" THEN <<"b">> ELSE <<"a", "s", "s", "e", "t">>)
               /\ Number(SubSeq(names[i], pre + 1, Len(names[i]))) = (i - 1) + 1

\* C10 witness: an assets reader constructed over files two of which are the
\* same file, the tenth file named asset10.
C10_Witness ==
    /\ phase = "ready" /\ mode = "assets" /\ Len(files) >= 10
    /\ files[1] = files[3]
    /\ names[10] = <<"a", "s", "s", "e", "t", "1", "0">>

\* ------------------------------------------- claims: mosaic construction
\* The files of disk taken in the order q, a permutation of their positions.
Reordered(q) == [i \in 1..Len(disk) |-> disk[q[i]]]

\* C11: a constructed MosaicReader's bounds are (smallest left, smallest
\* bottom, largest right, largest top) over its member files, and the same
\* files given in any other order construct a set with the same bounds.
C11_BoundsAreUnion ==
    mo.phase = "ready" =>
        /\ \A k \in 1..2 :
              /\ \E i \in 1..Len(disk) : mo.bounds[k] = disk[i].bounds[k]
              /\ \A i \in 1..Len(disk) : mo.bounds[k] <= disk[i].bounds[k]
        /\ \A k \in 3..4 :
              /\ \E i \in 1..Len(disk) : mo.bounds[k] = disk[i].bounds[k]
              /\ \A i \in 1..Len(disk) : mo.bounds[k] >= disk[i].bounds[k]
        /\ \A q \in Permutations(1..Len(disk)) :
              attrs_post_init(Reordered(q)).bounds = mo.bounds

\* C11 witness: a set of overlapping files whose bounds are the box of no
\* single member.
C11_Witness ==
    /\ mo.phase = "ready" /\ Len(disk) >= 2
    /\ \A i \in 1..Len(disk) : mo.bounds # disk[i].bounds
    /\ mo.bounds = <<0 - 3, 0 - 2, 6, 5>>

\* What opening file i of a bands / assets set gives.
ReaderFile(i) == IF i = 1 THEN first ELSE later

\* C12 (as amended): a constructed MosaicReader has the smallest minzoom and
\* the largest maxzoom of its member files, so that minzoom <= maxzoom and
\* every member's zoom range lies inside; a constructed bands / assets reader
\* has the zoom range of its first file alone.
C12_ZoomsAreUnion ==
    /\ mo.phase = "ready" =>
          /\ \E i \in 1..Len(disk) : mo.minzoom = disk[i].minzoom
          /\ \E i \in 1..Len(disk) : mo.maxzoom = disk[i].maxzoom
          /\ \A i \in 1..Len(disk) :
                mo.minzoom <= disk[i].minzoom /\ disk[i].maxzoom <= mo.maxzoom
          /\ mo.minzoom <= mo.maxzoom
    /\ phase = "ready" =>
          geo.minzoom = first.minzoom /\ geo.maxzoom = first.maxzoom

\* C12 witness: a mosaic whose zoom range is the range of no single member.
C12_Witness ==
    /\ mo.phase = "ready"
    /\ \A i \in 1..Len(disk) :
          mo.minzoom # disk[i].minzoom \/ mo.maxzoom # disk[i].maxzoom

\* C12 as stated: every constructed multi-file set, the bands / assets readers
\* included, has the smallest minzoom and the largest maxzoom of its files.
C12_Original ==
    /\ mo.phase = "ready" =>
          \A i \in 1..Len(disk) :
              mo.minzoom <= disk[i].minzoom /\ disk[i].maxzoom <= mo.maxzoom
    /\ (phase = "ready" /\ later.opens) =>
          \A i \in 1..Len(files) :
              geo.minzoom <= ReaderFile(i).minzoom
                  /\ ReaderFile(i).maxzoom <= geo.maxzoom

\* MosaicReader(filepath) was called directly and has ended.
Direct == mo.phase \in {"ready", "failed", "closed"} /\ mo.wrapper = ""

AllOpen == \A i \in 1..Len(disk) : disk[i].opens

SameTypeError == "Datasets must be of the same data type."

SameCountError == "Datasets must be have the same number of bands."

\* C13 (as amended): when every file opens, construction fails with "Datasets
\* must be of the same data type." exactly when the first bands of two files
\* differ in data type; with one first-band type it succeeds when the files
\* also have one band count, and fails with "Datasets must be have the same
\* number of bands." otherwise.
C13_SameTypeOrFail ==
    (Direct /\ AllOpen) =>
        /\ (\E i, j \in 1..Len(disk) : disk[i].dtypes[1] # disk[j].dtypes[1])
              <=> (mo.phase = "failed" /\ mo.err = SameTypeError)
        /\ (\A i, j \in 1..Len(disk) :
                /\ disk[i].dtypes[1] = disk[j].dtypes[1]
                /\ Len(disk[i].dtypes) = Len(disk[j].dtypes))
              <=> mo.phase # "failed"
        /\ mo.phase = "failed" => mo.err \in {SameTypeError, SameCountError}

\* C13 witness: construction over a uint8 file and a later uint16 file failed
\* on the data type.
C13_Witness ==
    /\ Direct /\ AllOpen /\ Len(disk) >= 2
    /\ disk[1].dtypes = <<"uint8">> /\ disk[Len(disk)].dtypes = <<"uint16">>
    /\ mo.phase = "failed" /\ mo.err = SameTypeError

\* C13 as stated: files of differing data types fail, and files that all have
\* the same data type succeed.
C13_Original ==
    (Direct /\ AllOpen) =>
        LET types == UNION {Range(disk[i].dtypes) : i \in 1..Len(disk)}
        IN  /\ Cardinality(types) > 1 => mo.phase = "failed"
            /\ Cardinality(types) = 1 => mo.phase # "failed"

\* C14: in every constructed MosaicReader all the member files have the same
\* data type on every band and the same number of bands.
C14_OneTypeOneCount ==
    mo.phase = "ready" =>
        \A i, j \in 1..Len(disk) :
            /\ Len(disk[i].dtypes) = Len(disk[j].dtypes)
            /\ \A k \in 1..Len(disk[i].dtypes), l \in 1..Len(disk[j].dtypes) :
                  disk[i].dtypes[k] = disk[j].dtypes[l]

\* C15: info() returns the non-spatial metadata of the first member file,
\* whatever the other files hold, together with the bounds, minzoom and
\* maxzoom the set computed at construction.
C15_InfoOfFirstFile ==
    out.op = "info" =>
        /\ out.kind = "return"
        /\ out.value.meta =
              [file |-> 1, dtype |-> disk[1].dtypes[1],
               count |-> Len(disk[1].dtypes), colormap |-> disk[1].cmap]
        /\ out.value.bounds = mo.bounds
        /\ out.value.minzoom = mo.minzoom
        /\ out.value.maxzoom = mo.maxzoom

\* C15 witness: info() of a set whose bounds and zoom range are not the first
\* file's, and whose colormap comes from a later file.
C15_Witness ==
    /\ out.op = "info" /\ out.kind = "return" /\ Len(disk) >= 2
    /\ out.value.bounds # disk[1].bounds
    /\ out.value.minzoom # disk[1].minzoom
    /\ out.value.maxzoom # disk[1].maxzoom
    /\ out.value.meta.colormap = 0 /\ mo.colormap.set

\* C16 (as amended): a MosaicReader over a file that does not open is never
\* handed out: construction ends with the error of the open and no operation
\* runs on the set.  A bands / assets reader opens its first file only: with a
\* first file that does not open construction fails and no name is resolved,
\* and with a first file that opens it succeeds whatever the other files are.
C16_OpenFailureAborts ==
    /\ (mo.phase # "new" /\ ~AllOpen) =>
          /\ mo.phase = "failed" /\ mo.err = "RasterioIOError"
          /\ out = NoCall
    /\ phase \in {"ready", "failed"} => (phase = "ready" <=> first.opens)
    /\ rout # NoUrl => first.opens

\* C16 witness: construction of a mosaic failed on a file after the first.
C16_Witness ==
    /\ Len(disk) >= 2 /\ disk[1].opens /\ ~AllOpen
    /\ mo.phase = "failed" /\ mo.err = "RasterioIOError"

\* C16 as stated: no set, mosaic or bands / assets, is constructed over a
\* member file that cannot be opened.
C16_Original ==
    /\ mo.phase = "ready" => AllOpen
    /\ phase = "ready" => \A i \in 1..Len(files) : ReaderFile(i).opens

\* The member files that have a colormap.
Coloured == {i \in 1..Len(disk) : disk[i].cmap # 0}

\* C18: a constructed MosaicReader has the colormap of the first member file,
\* in file order, that has one; when no member has a colormap the attribute
\* is absent and the routes read no dataset colormap.
C18_FirstColormap ==
    mo.phase = "ready" =>
        IF Coloured = {}
        THEN ~mo.colormap.set /\ dst_colormap(mo) = 0
        ELSE LET i == CHOOSE i \in Coloured : \A j \in Coloured : i <= j
             IN  /\ mo.colormap = [set |-> TRUE, map |-> disk[i].cmap]
                 /\ dst_colormap(mo) = disk[i].cmap

\* C18 witness: the first file has no colormap, two later files have one, and
\* the set has the colormap of the earlier of the two.
C18_Witness ==
    /\ mo.phase = "ready" /\ Cardinality(Coloured) >= 2 /\ 1 \notin Coloured
    /\ \E i \in Coloured :
          /\ mo.colormap.map = disk[i].cmap
          /\ \E j \in Coloured : j > i /\ disk[j].cmap # disk[i].cmap

\* ------------------------------------------------ claims: life of a set
\* C19: a constructed set is read-only: no tile, point, info or stats call,
\* whatever its outcome, and no failing preview, part or feature call changes
\* the member handles, bounds, minzoom, maxzoom or colormap of a mosaic, and no
\* name resolution changes the file list, logical names, bounds or zooms of a
\* bands / assets reader.
C19_ReadOnly ==
    [][/\ (mo.phase = "ready" /\ mo'.phase = "ready") =>
             /\ mo'.members = mo.members /\ datasets' = datasets
             /\ mo'.bounds = mo.bounds
             /\ mo'.minzoom = mo.minzoom /\ mo'.maxzoom = mo.maxzoom
             /\ mo'.colormap = mo.colormap
       /\ phase = "ready" =>
             /\ phase' = "ready"
             /\ files' = files /\ names' = names /\ geo' = geo]_vars

\* C19 witness: a reversed tile call has returned from a mosaic of several
\* members, which are still held in file order.
C19_Witness ==
    /\ mo.phase = "ready" /\ Len(mo.members) >= 2
    /\ out.op = "tile" /\ out.reverse /\ out.kind = "return"
    /\ \A i \in 1..Len(mo.members) : mo.members[i] = [file |-> i, open |-> TRUE]

\* C20: once the set is closed, by the exit of its context or by close() of
\* the AsyncReader around it, none of the handles opened at construction is
\* still open.
C20_ClosedReleasesAll ==
    (mo.phase = "closed" \/ mo.wrapper = "closed") =>
        \A i \in 1..Len(mo.members) : ~mo.members[i].open

\* ------------------------------------------------ claims: concurrent calls
\* C21: however the tile() and point() calls of several threads on one
\* MosaicReader interleave, a call that has ended has the result it has when
\* run alone, and no step of a call changes the reader's datasets.
C21_AsIfAlone ==
    /\ [](\A t \in Threads :
            calls.ctl[t].pc = "done" =>
                calls.ctl[t].res =
                    IF calls.ctl[t].op = "tile"
                    THEN tile(datasets, calls.ctl[t].reverse)
                    ELSE point(datasets, calls.ctl[t].reverse, calls.ctl[t].allowed))
    /\ [][datasets' = datasets]_vars

\* C21 witness: two tile calls in opposite orders ran at once over several
\* members, one has ended with pixels of two files and the other is still
\* going through its assets.
C21_Witness ==
    /\ Len(datasets) >= 2
    /\ calls.ctl["t1"].pc = "done" /\ calls.ctl["t1"].op = "tile"
    /\ calls.ctl["t1"].res.kind = "return"
    /\ \E p, q \in 1..NPix :
          /\ calls.ctl["t1"].res.value[p] # Masked
          /\ calls.ctl["t1"].res.value[q] # Masked
          /\ calls.ctl["t1"].res.value[p] # calls.ctl["t1"].res.value[q]
    /\ calls.ctl["t2"].pc = "run" /\ calls.ctl["t2"].op = "tile"
    /\ calls.ctl["t2"].reverse # calls.ctl["t1"].reverse
    /\ calls.ctl["t2"].k >= 2

\* ------------------------------------------------ claims: viz application
\* The last request was handled by a route that adapts the options of a bands
\* or assets reader, and gave no expression.
Defaulting ==
    /\ resp.n > 0 /\ resp.fault # "open"
    /\ resp.route \notin {"tilejson", "wmts"}
    /\ app.reader_type \in {"bands", "assets"}
    /\ ~Truthy(resp.given.expression)

\* C22: for a request without expression to a bands (assets) reader, the
\* names the request gives are used as they are; without them the layers
\* configured on viz are used; without layers, all the names of the reader.
\* No request changes the configured layers, so that a default applied to one
\* request does not reach the next.
C22_LayerDefaults ==
    /\ [](Defaulting =>
            /\ resp.options.expression = resp.given.expression
            /\ resp.options.names =
                  IF Truthy(resp.given.names) THEN resp.given.names
                  ELSE IF Truthy(app.layers) THEN app.layers
                  ELSE Some(ReaderNames(app.reader_type)))
    /\ [][app' = app]_vars

\* C22 witness: the second request to an application with layers configured
\* names other bands than the layers, and is served with the bands it names.
C22_Witness ==
    /\ Defaulting /\ resp.n = 2 /\ resp.status = 200
    /\ Truthy(app.layers) /\ Truthy(resp.given.names)
    /\ resp.given.names # app.layers
    /\ resp.options.names = resp.given.names

\* The last request asked the tile route for a vector tile, and the reader
\* was opened.
VectorRequest ==
    /\ resp.route = "tile" /\ resp.fault \in {"none", "outside"}
    /\ resp.format.some /\ resp.format.val \in VectorTileFormat

\* C25: a vector tile request is answered 404 when the tile lies outside the
\* dataset, whether or not feature_type is given; inside, 500 when
\* feature_type is missing or the MVT encoder is not installed, and otherwise
\* 200 with media type application/x-protobuf.
C25_VectorTileOutcome ==
    VectorRequest =>
        IF resp.fault = "outside" THEN resp.status = 404
        ELSE IF ~Truthy(resp.feature_type) \/ ~app.has_mvt THEN resp.status = 500
        ELSE resp.status = 200 /\ resp.media = "application/x-protobuf"

\* C25 witness: a pbf tile outside the dataset, asked without feature_type,
\* was answered 404.
C25_Witness ==
    /\ VectorRequest /\ resp.fault = "outside" /\ app.has_mvt
    /\ ~Truthy(resp.feature_type) /\ resp.status = 404

\* C29: every reader a route handler has opened is closed when the handler
\* has ended, whether it answered or the read raised: between requests no
\* reader is open.
C29_ReadersClosed == readers = {}

\* C29 witness: two requests have ended, the last one with a read that raised.
C29_Witness ==
    /\ resp.n = 2 /\ resp.fault \in {"outside", "error"} /\ resp.status >= 400
    /\ readers = {}

\* ----------------------------------------------- claims: tile URL templates
\* The pieces of a token sequence between the occurrences of sep.
RECURSIVE SplitOn(_, _)
SplitOn(ts, sep) ==
    IF ts = <<>> THEN <<<<>>>>
    ELSE LET r == SplitOn(Tail(ts), sep) IN
         IF Head(ts) = sep THEN <<<<>>>> \o r
         ELSE <<<<Head(ts)>> \o r[1]>> \o Tail(r)

\* What a client reading the URL decodes a written value to: "+" is a space
\* and %2C a comma.
RECURSIVE Unquote(_)
Unquote(ts) ==
    IF ts = <<>> THEN <<>>
    ELSE IF Head(ts) = "+" THEN <<" ">> \o Unquote(Tail(ts))
    ELSE IF Head(ts) = "%" /\ Len(ts) >= 3
         THEN <<IF <<ts[2], ts[3]>> = <<"2", "C">> THEN "," ELSE "?">>
                 \o Unquote(SubSeq(ts, 4, Len(ts)))
    ELSE <<Head(ts)>> \o Unquote(Tail(ts))

\* The (name, value) pairs a query string holds, in order.
ParseQs(ts) ==
    LET items == SplitOn(ts, "&") IN
    [i \in 1..Len(items) |->
        IF Len(items[i]) >= 2 /\ items[i][2] = "="
        THEN <<items[i][1], Unquote(SubSeq(items[i], 3, Len(items[i])))>>
        ELSE <<"", <<>>>>]

\* The URL answers the request q as the template should: the path ends with
\* the requested format, and the query string is the request's parameters
\* other than tile_format, in order, or is absent when there are none.
TemplateHolds(q, tile_url) ==
    LET parts == SplitOn(tile_url, "?")
        path  == parts[1]
        rest  == SelectSeq(q, LAMBDA p : p[1] # "tile_format")
        tf    == TileFormatOf(q)
    IN  /\ tf.some => /\ Len(path) >= 2
                      /\ SubSeq(path, Len(path) - 1, Len(path)) = <<".", tf.val>>
        /\ rest = <<>> => Len(parts) = 1
        /\ rest # <<>> => Len(parts) = 2 /\ ParseQs(parts[2]) = rest

\* The FastAPI route alone answers as the template should.
TileJSONRouteHolds ==
    (VizServes /\ resp.route = "tilejson" /\ resp.status = 200)
        => TemplateHolds(resp.query, resp.url)

\* C23: the tile URL of a /tilejson.json answer ends with the requested
\* tile_format and carries every other parameter of the request in request
\* order, tile_format never, and no query string when there is no other
\* parameter: of the FastAPI route and of the tornado handler.
C23_TemplateKeepsParams ==
    /\ TileJSONRouteHolds
    /\ (TornadoServes /\ reply.handler = "TileJSONHandler" /\ reply.status = 200)
          => TemplateHolds(reply.query, reply.url)

\* ------------------------------------------------- claims: tornado server
ReadCalls == {"read_tile", "read_tile_mvt"}

TileReply ==
    TornadoServes /\ reply.handler \in {"RasterTileHandler", "MVTileHandler"}

\* C24: a tile handler answers a tile for which raster.tile_exists is false
\* with 404 and without any read of the raster, and whenever it reads the
\* raster it has checked the tile's existence before.
C24_CheckBeforeRead ==
    TileReply =>
        /\ ~tile_exists(raster, reply.tile[1], reply.tile[2], reply.tile[3])
              => /\ reply.status = 404
                 /\ \A i \in 1..Len(log) : log[i] \notin ReadCalls
        /\ \A i \in 1..Len(log) :
              log[i] \in ReadCalls => \E j \in 1..(i - 1) : log[j] = "tile_exists"

C24_Witness ==
    /\ TileReply /\ reply.handler = "MVTileHandler"
    /\ ~tile_exists(raster, reply.tile[1], reply.tile[2], reply.tile[3])
    /\ reply.status = 404 /\ log = <<"tile_exists">>

\* The tile lies between the tiles that hold the upper-left and the
\* lower-right corner of the bounds at its zoom.
Within(bounds, z, x, y) ==
    LET ul == mercantile_tile(bounds[1], bounds[4], z)
        lr == mercantile_tile(bounds[3], bounds[2], z)
    IN  ul.x <= x /\ x <= lr.x /\ ul.y <= y /\ y <= lr.y

\* C28: tile_exists is true exactly of the tiles between the tiles of the
\* bounds' upper-left and lower-right corners: for the tile of every request
\* a tile handler answered.
C28_ExistsIffWithin ==
    TileReply =>
        (tile_exists(raster, reply.tile[1], reply.tile[2], reply.tile[3])
            <=> Within(raster, reply.tile[1], reply.tile[2], reply.tile[3]))

\* ---------------------------------------------------- claims: rio viz command
TokenIsPublic == cli.token = <<>> \/ (Len(cli.token) >= 2 /\ cli.token[1] = "p" /\ cli.token[2] = "k")

Happened(e) == \E i \in 1..Len(events) : events[i] = e

\* C26: the command goes past the conversion of its options exactly when the
\* Mapbox token is empty or starts with "pk"; with any other token it ends
\* with exit code 1 and has neither constructed nor started the server nor
\* launched the browser; and the server is never constructed before the
\* token was converted.
C26_TokenFirst ==
    (CliRuns /\ cli.phase # "invoked") =>
        /\ events[1] = "convert"
        /\ (Len(events) > 1 \/ cli.phase = "serving") => TokenIsPublic
        /\ ~TokenIsPublic =>
              /\ cli.phase = "ended" /\ cli.exit_code = 1
              /\ ~Happened("viz") /\ ~Happened("launch") /\ ~Happened("start")
        /\ TokenIsPublic => Len(events) > 1

C26_Witness ==
    /\ CliRuns /\ cli.phase = "ended" /\ cli.token = <<"s", "k", ".", "a">>
    /\ cli.exit_code = 1 /\ events = <<"convert">>

Running(key) == {i \in 1..Len(servers) : servers[i].key = key /\ servers[i].alive}

\* C30: whatever Clients were constructed and shut down, at most one server
\* made for a key runs, and it is the one registered under the key: a server
\* that was live under the key when a new Client was constructed has been shut
\* down.
C30_OneLiveServer ==
    DOMAIN live # {} =>
        \A key \in Keys :
            /\ Cardinality(Running(key)) <= 1
            /\ \A i \in Running(key) : live[key] = i

C30_Witness ==
    /\ DOMAIN live # {}
    /\ \E key \in Keys :
          /\ Cardinality({i \in 1..Len(servers) : servers[i].key = key}) >= 2
          /\ Running(key) = {live[key]}
          /\ live[key] >= 2 /\ servers[live[key] - 1].key = key

====
